---- MODULE Spec2Model ----
(***************************************************************************)
(* A model of druid's widget-tree propagation core (druid/src/core.rs):    *)
(* WidgetPod and BaseState, and the lifecycle, event, layout, update and   *)
(* paint passes that containers compose over their children.               *)
(*                                                                         *)
(* Option<T> values are sets: {} is None and {x} is Some(x).               *)
(* A pass is one atomic step: the recursive operators below thread a       *)
(* "world" record w = [pods, log, added, panicked] through the tree in the *)
(* order in which the code visits it.                                      *)
(***************************************************************************)
EXTENDS Integers, Sequences, FiniteSets, TLC

\* ------------------------------------------------------------------ bounds
\* Number of pods a tree may hold; pod 1 is the root.
MaxPods == 3
\* Number of bits of the membership filter (ids collide modulo NumBits).
NumBits == 3
\* Pointer positions range over 0..MaxX by 0..MaxY; the window is MaxX wide and
\* MaxY + 1 high, so the positions with x = MaxX are outside it.
MaxX == 3
MaxY == 0
\* Data and environment values range over 0..MaxVal.
MaxVal == 1

Pods == 1..MaxPods
\* Index of the caller's state record (the window's scratch BaseState).
Root == 1
CtxIdx == 0

VARIABLES
    parent,     \* parent[p]: the pod whose widget owns pod p (0 for the root)
    present,    \* the pods that currently exist in the tree
    pods,       \* pods[p] = [state, old_data, env]; pods[0] is the caller's ctx
    focus,      \* the window's focused widget, Option<WidgetId>
    mouse,      \* the window's last pointer position, Option<Point>
    data,       \* the application data the window owns: one value per pod's lens
    env,        \* the environment the window passes down
    log,        \* what the widgets were handed during the last pass, in order
    added,      \* added[p]: how often p's widget received LifeCycle::WidgetAdded
    op,         \* the last pass that ran, with its arguments
    panicked    \* an assert! or panic! was hit

vars == <<parent, present, pods, focus, mouse, data, env, log, added, op, panicked>>

\* ---------------------------------------------------------------- geometry
Pt(x, y) == [x |-> x, y |-> y]
Rc(x0, y0, x1, y1) == [x0 |-> x0, y0 |-> y0, x1 |-> x1, y1 |-> y1]
ZeroRect == Rc(0, 0, 0, 0)
ZeroVec == Pt(0, 0)
ZeroInsets == Rc(0, 0, 0, 0)

Min(a, b) == IF a < b THEN a ELSE b
Max(a, b) == IF a < b THEN b ELSE a

\* Rect::winding(pt) != 0: half-open containment.
winding(r, pt) ==
    /\ pt.x >= Min(r.x0, r.x1) /\ pt.x < Max(r.x0, r.x1)
    /\ pt.y >= Min(r.y0, r.y1) /\ pt.y < Max(r.y0, r.y1)

origin(r) == Pt(r.x0, r.y0)
PtSub(p, v) == Pt(p.x - v.x, p.y - v.y)
VecSub(a, b) == Pt(a.x - b.x, a.y - b.y)

\* Rect::with_origin(ORIGIN): the same size at the origin.
with_origin0(r) == Rc(0, 0, r.x1 - r.x0, r.y1 - r.y0)
\* Rect + Insets (Rect::inset): each side moved outwards by its inset.
inset(r, i) == Rc(r.x0 - i.x0, r.y0 - i.y0, r.x1 + i.x1, r.y1 + i.y1)

\* A Region is the set of unit cells it covers.
EmptyRegion == {}
RegionOfRect(r) ==
    {Pt(x, y) : x \in Min(r.x0, r.x1)..(Max(r.x0, r.x1) - 1),
                y \in Min(r.y0, r.y1)..(Max(r.y0, r.y1) - 1)}
RegionTranslate(reg, v) == {Pt(c.x + v.x, c.y + v.y) : c \in reg}
RegionIntersect(reg, r) == {c \in reg : winding(r, c)}

\* ------------------------------------------------------ membership filter
BloomNew == [bits |-> {}, entry_count |-> 0]
BloomHash(id) == id % NumBits
BloomAdd(b, id) == [bits |-> b.bits \cup {BloomHash(id)}, entry_count |-> b.entry_count + 1]
BloomUnion(a, b) == [bits |-> a.bits \cup b.bits, entry_count |-> a.entry_count + b.entry_count]
may_contain(b, id) == BloomHash(id) \in b.bits

\* --------------------------------------------------------------- BaseState
BaseStateNew(id) ==
    [id |-> id,
     layout_rect |-> {},
     paint_insets |-> ZeroInsets,
     invalid |-> EmptyRegion,
     viewport_offset |-> ZeroVec,
     is_hot |-> FALSE,
     needs_layout |-> FALSE,
     is_active |-> FALSE,
     has_active |-> FALSE,
     has_focus |-> FALSE,
     request_anim |-> FALSE,
     request_timer |-> FALSE,
     request_focus |-> {},
     focus_chain |-> <<>>,
     children |-> BloomNew,
     children_changed |-> FALSE,
     timers |-> {}]

\* Faulty variant: a pod without a layout rect is taken to cover a unit cell.
layout_rect_unit_default(st) ==
    IF st.layout_rect = {} THEN Rc(0, 0, 1, 1) ELSE CHOOSE r \in st.layout_rect : TRUE

\* BaseState::layout_rect(): unwrap_or_default.
layout_rect(st) == IF st.layout_rect = {} THEN ZeroRect ELSE CHOOSE r \in st.layout_rect : TRUE
\* BaseState::paint_rect().
paint_rect(st) == inset(layout_rect(st), st.paint_insets)

\* HashMap::extend: the entries of b replace those of a with the same token.
TimersExtend(a, b) == {e \in a : \A f \in b : f[1] # e[1]} \cup b

\* Faulty variant: the child's region is merged without being clipped.
merge_up_unclipped(self, child_state) ==
    [self EXCEPT
       !.invalid = self.invalid \cup
                   RegionTranslate(child_state.invalid,
                                   VecSub(origin(layout_rect(child_state)),
                                          child_state.viewport_offset)),
       !.needs_layout = self.needs_layout \/ child_state.needs_layout,
       !.request_anim = self.request_anim \/ child_state.request_anim,
       !.request_timer = self.request_timer \/ child_state.request_timer,
       !.has_active = self.has_active \/ child_state.has_active,
       !.has_focus = self.has_focus \/ child_state.has_focus,
       !.children_changed = self.children_changed \/ child_state.children_changed,
       !.request_focus = IF self.request_focus # {} THEN self.request_focus
                         ELSE child_state.request_focus,
       !.timers = TimersExtend(self.timers, child_state.timers)]

\* Faulty variant: has_active is taken from the child instead of being or-ed.
merge_up_assign(self, child_state) ==
    [self EXCEPT
       !.invalid = self.invalid \cup
                   RegionIntersect(RegionTranslate(child_state.invalid,
                                       VecSub(origin(layout_rect(child_state)),
                                              child_state.viewport_offset)),
                                   inset(with_origin0(layout_rect(self)), self.paint_insets)),
       !.needs_layout = self.needs_layout \/ child_state.needs_layout,
       !.request_anim = self.request_anim \/ child_state.request_anim,
       !.request_timer = self.request_timer \/ child_state.request_timer,
       !.has_active = child_state.has_active,
       !.has_focus = self.has_focus \/ child_state.has_focus,
       !.children_changed = self.children_changed \/ child_state.children_changed,
       !.request_focus = IF self.request_focus # {} THEN self.request_focus
                         ELSE child_state.request_focus,
       !.timers = TimersExtend(self.timers, child_state.timers)]

\* Faulty variant: the child's focus request replaces the parent's.
merge_up_last_request(self, child_state) ==
    [self EXCEPT
       !.invalid = self.invalid \cup
                   RegionIntersect(RegionTranslate(child_state.invalid,
                                       VecSub(origin(layout_rect(child_state)),
                                              child_state.viewport_offset)),
                                   inset(with_origin0(layout_rect(self)), self.paint_insets)),
       !.needs_layout = self.needs_layout \/ child_state.needs_layout,
       !.request_anim = self.request_anim \/ child_state.request_anim,
       !.request_timer = self.request_timer \/ child_state.request_timer,
       !.has_active = self.has_active \/ child_state.has_active,
       !.has_focus = self.has_focus \/ child_state.has_focus,
       !.children_changed = self.children_changed \/ child_state.children_changed,
       !.request_focus = IF child_state.request_focus # {} THEN child_state.request_focus
                         ELSE self.request_focus,
       !.timers = TimersExtend(self.timers, child_state.timers)]

\* BaseState::merge_up: fold a child's state into its parent's.
merge_up(self, child_state) ==
    LET child_region ==
            RegionTranslate(child_state.invalid,
                            VecSub(origin(layout_rect(child_state)), child_state.viewport_offset))
        clip == inset(with_origin0(layout_rect(self)), self.paint_insets)
    IN [self EXCEPT
          !.invalid = self.invalid \cup RegionIntersect(child_region, clip),
          !.needs_layout = self.needs_layout \/ child_state.needs_layout,
          !.request_anim = self.request_anim \/ child_state.request_anim,
          !.request_timer = self.request_timer \/ child_state.request_timer,
          !.has_active = self.has_active \/ child_state.has_active,
          !.has_focus = self.has_focus \/ child_state.has_focus,
          !.children_changed = self.children_changed \/ child_state.children_changed,
          !.request_focus = IF self.request_focus # {} THEN self.request_focus
                            ELSE child_state.request_focus,
          !.timers = TimersExtend(self.timers, child_state.timers)]

\* ----------------------------------------------------------------- the tree
\* WidgetPod::new: a fresh pod.
WidgetPodNew(id) ==
    [state |-> [BaseStateNew(id) EXCEPT !.children_changed = TRUE, !.needs_layout = TRUE],
     old_data |-> {},
     env |-> {}]

\* The caller's context: a fresh BaseState and no snapshot.
CtxNew == [state |-> BaseStateNew(CtxIdx), old_data |-> {}, env |-> {}]

RECURSIVE SortedSeq(_)
SortedSeq(S) ==
    IF S = {} THEN <<>>
    ELSE LET m == CHOOSE x \in S : \A y \in S : x <= y
         IN <<m>> \o SortedSeq(S \ {m})

\* The child pods a container widget holds, in the order it visits them.
ChildrenOf(p) == SortedSeq({c \in present : parent[c] = p})

RECURSIVE Ancestors(_)
Ancestors(p) == IF parent[p] = CtxIdx THEN {} ELSE {parent[p]} \cup Ancestors(parent[p])
Subtree(p) == {q \in present : q = p \/ p \in Ancestors(q)}

\* The part of the application data that pod p and its subtree are handed (the
\* lens of p): the values of p and of the pods below it.
View(p, d) == [q \in {r \in Pods : r = p \/ p \in Ancestors(r)} |-> d[q]]
\* Data::same.
same(a, b) == a = b

\* Every tree over the pods: a pod's parent has a smaller index.
Shapes == {f \in [Pods -> 0..(MaxPods - 1)] : f[Root] = CtxIdx /\ \A p \in Pods \ {Root} : f[p] >= Root /\ f[p] < p}

\* ------------------------------------------------------------ lifecycle
LcWidgetAdded == [kind |-> "WidgetAdded", old |-> {}, new |-> {}, b |-> FALSE]
LcRouteWidgetAdded == [kind |-> "RouteWidgetAdded", old |-> {}, new |-> {}, b |-> FALSE]
LcRouteFocusChanged(old, new) == [kind |-> "RouteFocusChanged", old |-> old, new |-> new, b |-> FALSE]
LcFocusChanged(b) == [kind |-> "FocusChanged", old |-> {}, new |-> {}, b |-> b]
LcHotChanged(b) == [kind |-> "HotChanged", old |-> {}, new |-> {}, b |-> b]
LcAnimFrame == [kind |-> "AnimFrame", old |-> {}, new |-> {}, b |-> FALSE]

LogEntry(p, kind, b, pos) == [pod |-> p, kind |-> kind, b |-> b, pos |-> pos]

\* The result of the match in WidgetPod::lifecycle: the pod afterwards, whether
\* the widget is handed the event, the event it is handed, and whether an
\* assertion failed.
Matched(pod, recurse, event) == [pod |-> pod, recurse |-> recurse, event |-> event, panic |-> FALSE]

\* Faulty variant: the filter and the focus chain are not cleared before they
\* are rebuilt.
ArmRouteWidgetAddedNoClear(pod, event) ==
    Matched(pod, pod.state.children_changed, event)

\* InternalLifeCycle::RouteWidgetAdded on a pod that has a snapshot.
ArmRouteWidgetAdded(pod, event) ==
    Matched(IF pod.state.children_changed
            THEN [pod EXCEPT !.state.children = BloomNew, !.state.focus_chain = <<>>]
            ELSE pod,
            pod.state.children_changed, event)

\* InternalLifeCycle::RouteFocusChanged { old, new }.
ArmRouteFocusChanged(pod, event) ==
    LET id == pod.state.id
        p0 == [pod EXCEPT !.state.request_focus = {}]
        this_changed == IF event.old = {id} THEN {FALSE}
                        ELSE IF event.new = {id} THEN {TRUE}
                        ELSE {}
    IN IF this_changed # {}
       THEN LET change == CHOOSE c \in this_changed : TRUE IN
            IF event.old # event.new
            THEN Matched([p0 EXCEPT !.state.has_focus = change], TRUE, LcFocusChanged(change))
            ELSE Matched(p0, FALSE, event)
       ELSE Matched([p0 EXCEPT !.state.has_focus = FALSE],
                    \/ \E o \in event.old : may_contain(pod.state.children, o)
                    \/ \E n \in event.new : may_contain(pod.state.children, n),
                    event)

\* LifeCycle::AnimFrame.
ArmAnimFrame(pod, event) ==
    Matched([pod EXCEPT !.state.request_anim = FALSE], pod.state.request_anim, event)

\* Faulty variant: WidgetAdded does not capture the data and environment snapshot.
ArmWidgetAddedNoSnapshot(pod, event, d, e) ==
    IF pod.old_data # {}
    THEN [pod |-> pod, recurse |-> FALSE, event |-> event, panic |-> TRUE]
    ELSE Matched(pod, TRUE, event)

\* LifeCycle::WidgetAdded: assert!(self.old_data.is_none()), then the snapshot.
ArmWidgetAdded(pod, event, d, e) ==
    IF pod.old_data # {}
    THEN [pod |-> pod, recurse |-> FALSE, event |-> event, panic |-> TRUE]
    ELSE Matched([pod EXCEPT !.old_data = {View(pod.state.id, d)}, !.env = {e}], TRUE, event)

\* WidgetPod::lifecycle, the match on the event.
\* (RouteWidgetAdded on a pod without a snapshot is handled in PodLifecycle.)
LifecycleMatch(pod, event, d, e) ==
    CASE event.kind = "RouteWidgetAdded" -> ArmRouteWidgetAdded(pod, event)
      [] event.kind = "RouteFocusChanged" -> ArmRouteFocusChanged(pod, event)
      [] event.kind = "AnimFrame" -> ArmAnimFrame(pod, event)
      [] event.kind = "WidgetAdded" -> ArmWidgetAdded(pod, event, d, e)
      [] event.kind = "HotChanged" -> Matched(pod, FALSE, event)
      [] event.kind = "FocusChanged" -> Matched(pod, FALSE, event)

\* Faulty variant: the pod registers its own id but not its children's filter.
RegisterChildOwnIdOnly(ctx_state, self_state) ==
    [ctx_state EXCEPT !.children = BloomAdd(ctx_state.children, self_state.id)]

\* Faulty variant: the children's filter is taken over but the pod's own id is
\* not registered.
RegisterChildUnionOnly(ctx_state, self_state) ==
    [ctx_state EXCEPT
        !.children = BloomUnion(ctx_state.children, self_state.children),
        !.focus_chain = ctx_state.focus_chain \o self_state.focus_chain]

\* WidgetPod::lifecycle, the (re)registration of the pod with its caller.
RegisterChild(ctx_state, self_state) ==
    [ctx_state EXCEPT
        !.children = BloomAdd(BloomUnion(ctx_state.children, self_state.children), self_state.id),
        !.focus_chain = ctx_state.focus_chain \o self_state.focus_chain]

\* ctx.base_state.merge_up(&self.state): pod p's state folded into that of its
\* caller c.
MergeUp(w, p, c) == [w EXCEPT !.pods[c].state = merge_up(@, w.pods[p].state)]

RECURSIVE PodLifecycle(_, _, _, _, _, _), LifecycleChildren(_, _, _, _, _, _)

\* Widget::lifecycle of a container (Either::lifecycle): the event is handed
\* on to every child pod, in order.
LifecycleChildren(w, p, cs, event, d, e) ==
    IF cs = <<>> THEN w
    ELSE LifecycleChildren(PodLifecycle(w, Head(cs), p, event, d, e),
                           p, Tail(cs), event, d, e)

\* LifeCycleCtx::register_for_focus: the pod's id joins its focus chain.
register_for_focus(st) == [st EXCEPT !.focus_chain = Append(@, st.id)]

\* The inner widget's lifecycle: recorded, then handed on to the children; a
\* widget without children registers for focus when it is added.
WidgetLifecycle(w, p, event, d, e) ==
    LET w1 == [w EXCEPT !.log = Append(w.log, LogEntry(p, event.kind, event.b, ZeroVec)),
                        !.added[p] = IF event.kind = "WidgetAdded" THEN @ + 1 ELSE @,
                        !.pods[p].state = IF event.kind = "WidgetAdded" /\ ChildrenOf(p) = <<>>
                                          THEN register_for_focus(@) ELSE @]
    IN LifecycleChildren(w1, p, ChildrenOf(p), event, d, e)

\* Faulty variant: children_changed is left set after the registration.
LifecycleFinishKeepFlag(w, p, c, event) ==
    IF w.panicked THEN w
    ELSE IF event.kind \in {"WidgetAdded", "RouteWidgetAdded"}
    THEN [MergeUp(w, p, c) EXCEPT !.pods[c].state = RegisterChild(@, w.pods[p].state)]
    ELSE MergeUp(w, p, c)

\* WidgetPod::lifecycle after the widget was handed the event: the merge into
\* the caller's state and, for WidgetAdded and RouteWidgetAdded, the
\* registration.
LifecycleFinish(w, p, c, event) ==
    IF w.panicked THEN w
    ELSE IF event.kind \in {"WidgetAdded", "RouteWidgetAdded"}
    THEN [MergeUp(w, p, c) EXCEPT
            !.pods[p].state.children_changed = FALSE,
            !.pods[c].state = RegisterChild(@, w.pods[p].state)]
    ELSE MergeUp(w, p, c)

\* WidgetPod::lifecycle after the match m: the widget is handed the (possibly
\* substituted) event when m.recurse.
LifecycleRecurse(w, p, c, m, d, e) ==
    IF m.panic THEN [w EXCEPT !.panicked = TRUE]
    ELSE LifecycleFinish(IF m.recurse
                         THEN WidgetLifecycle([w EXCEPT !.pods[p] = m.pod], p, m.event, d, e)
                         ELSE [w EXCEPT !.pods[p] = m.pod],
                         p, c, m.event)

\* WidgetPod::lifecycle on pod p, called with the context of pod c.
PodLifecycle(w, p, c, event, d, e) ==
    IF w.panicked THEN w
    ELSE IF event.kind = "RouteWidgetAdded" /\ w.pods[p].old_data = {}
    THEN PodLifecycle(w, p, c, LcWidgetAdded, d, e)
    ELSE LifecycleRecurse(w, p, c, LifecycleMatch(w.pods[p], event, d, e), d, e)

\* ------------------------------------------------------------------ events
EvMouseDown(pos) == [kind |-> "MouseDown", pos |-> pos]
EvMouseUp(pos) == [kind |-> "MouseUp", pos |-> pos]
EvMouseMove(pos) == [kind |-> "MouseMove", pos |-> pos]

\* Target::Global, Target::Window and Target::Widget(id).
TargetGlobal == [kind |-> "Global", id |-> CtxIdx]
TargetWindow == [kind |-> "Window", id |-> CtxIdx]
TargetWidget(i) == [kind |-> "Widget", id |-> i]
\* An id that no pod has and that the filter cannot tell from pod 2's.
StrayId == 2 + NumBits
Targets == {TargetGlobal, TargetWindow} \cup {TargetWidget(i) : i \in Pods \cup {StrayId}}

\* Event::Internal(InternalEvent::TargetedCommand(target, cmd)) and
\* Event::Command(cmd).
EvTargetedCommand(target) == [kind |-> "TargetedCommand", pos |-> ZeroVec, target |-> target]
\* A command whose payload makes the widgets of asks ask for the focus.
EvCommandAsking(asks) == [kind |-> "Command", pos |-> ZeroVec, asks |-> asks]
EvCommand == EvCommandAsking({})

\* Event::Internal(InternalEvent::RouteTimer(token, widget_id)) and
\* Event::Timer(token).
EvRouteTimer(token, widget_id) ==
    [kind |-> "RouteTimer", pos |-> ZeroVec, token |-> token, widget_id |-> widget_id]
EvTimer(token) == [kind |-> "Timer", pos |-> ZeroVec, token |-> token]

Positions == {Pt(x, y) : x \in 0..MaxX, y \in 0..MaxY}

\* Faulty variant: HotChanged is sent on every call, whether or not is_hot changed.
set_hot_state_always_notify(w, p, rect, mouse_pos) ==
    LET is_hot == \E pos \in mouse_pos : winding(rect, pos)
        w1 == [w EXCEPT !.pods[p].state.is_hot = is_hot]
    IN [w |-> WidgetLifecycle(w1, p, LcHotChanged(is_hot), data, env),
        changed |-> w.pods[p].state.is_hot # is_hot]

\* WidgetPod::set_hot_state: hit-test, and LifeCycle::HotChanged to the widget
\* when the hot state changed. Returns the world and whether it changed.
set_hot_state(w, p, rect, mouse_pos) ==
    LET had_hot == w.pods[p].state.is_hot
        is_hot == \E pos \in mouse_pos : winding(rect, pos)
        w1 == [w EXCEPT !.pods[p].state.is_hot = is_hot]
    IN IF had_hot # is_hot
       THEN [w |-> WidgetLifecycle(w1, p, LcHotChanged(is_hot), data, env), changed |-> TRUE]
       ELSE [w |-> w1, changed |-> FALSE]

\* EventCtx::set_active.
set_active(st, active) == [st EXCEPT !.is_active = active]
\* EventCtx::invalidate: the widget's own bounds need repainting.
invalidate(st) == [st EXCEPT !.invalid = @ \cup RegionOfRect(with_origin0(layout_rect(st)))]

\* Widget::event of a leaf widget (Slider::event): the pointer is captured on
\* MouseDown and released on MouseUp.
LeafEvent(st, event) ==
    CASE event.kind = "MouseDown" -> invalidate(set_active(st, TRUE))
      [] event.kind = "MouseUp" ->
            IF st.is_active THEN invalidate(set_active(st, FALSE)) ELSE st
      [] event.kind = "MouseMove" -> invalidate(st)
      [] OTHER -> st

\* EventCtx::set_handled, as called by a leaf widget that consumes a press when
\* its data enables it.
set_handled(p, event) == event.kind = "MouseDown" /\ data[p] # 0

\* Faulty variant: a pointer press or release is pruned on the hot state alone.
ArmMouseButtonHotOnly(h, p, event, rect, had_active) ==
    [w |-> h.w,
     recurse |-> h.w.pods[p].state.is_hot,
     event |-> [event EXCEPT !.pos = PtSub(event.pos, origin(rect))]]

\* WidgetPod::event, Event::MouseDown and Event::MouseUp, after set_hot_state
\* returned h.
ArmMouseButton(h, p, event, rect, had_active) ==
    [w |-> h.w,
     recurse |-> had_active \/ h.w.pods[p].state.is_hot,
     event |-> [event EXCEPT !.pos = PtSub(event.pos, origin(rect))]]

\* Faulty variant: a move is pruned without regard to a hot state that just
\* changed.
ArmMouseMoveNoEdge(h, p, event, rect, had_active) ==
    [w |-> h.w,
     recurse |-> had_active \/ h.w.pods[p].state.is_hot,
     event |-> [event EXCEPT !.pos = PtSub(event.pos, origin(rect))]]

\* WidgetPod::event, Event::MouseMove, after set_hot_state returned h.
ArmMouseMove(h, p, event, rect, had_active) ==
    [w |-> h.w,
     recurse |-> had_active \/ h.w.pods[p].state.is_hot \/ h.changed,
     event |-> [event EXCEPT !.pos = PtSub(event.pos, origin(rect))]]

\* Faulty variant: a global target is delivered like a window target.
ArmTargetedCommandGlobalDelivered(w, p, event) ==
    CASE event.target.kind \in {"Window", "Global"} ->
            [w |-> w, recurse |-> TRUE, event |-> EvCommand]
      [] event.target.kind = "Widget" /\ event.target.id = w.pods[p].state.id ->
            [w |-> w, recurse |-> TRUE, event |-> EvCommand]
      [] OTHER ->
            [w |-> w, recurse |-> may_contain(w.pods[p].state.children, event.target.id),
             event |-> event]

\* Faulty variant: a command for another widget is never passed on.
ArmTargetedCommandPruned(w, p, event) ==
    CASE event.target.kind = "Window" ->
            [w |-> w, recurse |-> TRUE, event |-> EvCommand]
      [] event.target.kind = "Widget" /\ event.target.id = w.pods[p].state.id ->
            [w |-> w, recurse |-> TRUE, event |-> EvCommand]
      [] event.target.kind = "Widget" /\ event.target.id # w.pods[p].state.id ->
            [w |-> w, recurse |-> FALSE, event |-> event]
      [] event.target.kind = "Global" ->
            [w |-> [w EXCEPT !.panicked = TRUE], recurse |-> FALSE, event |-> event]

\* WidgetPod::event, InternalEvent::TargetedCommand: a window target and the
\* pod's own id become Event::Command, another widget's id is routed through
\* the filter, a global target panics.
ArmTargetedCommand(w, p, event) ==
    CASE event.target.kind = "Window" ->
            [w |-> w, recurse |-> TRUE, event |-> EvCommand]
      [] event.target.kind = "Widget" /\ event.target.id = w.pods[p].state.id ->
            [w |-> w, recurse |-> TRUE, event |-> EvCommand]
      [] event.target.kind = "Widget" /\ event.target.id # w.pods[p].state.id ->
            [w |-> w, recurse |-> may_contain(w.pods[p].state.children, event.target.id),
             event |-> event]
      [] event.target.kind = "Global" ->
            [w |-> [w EXCEPT !.panicked = TRUE], recurse |-> FALSE, event |-> event]

\* Faulty variant: the owner hands the timer on as a routing event.
ArmRouteTimerNoDelivery(w, p, event) ==
    [w |-> w,
     recurse |-> may_contain(w.pods[p].state.children, event.widget_id),
     event |-> event]

\* WidgetPod::event, InternalEvent::RouteTimer: the owner's widget is handed
\* Event::Timer, any other pod routes through its filter.
ArmRouteTimer(w, p, event) ==
    IF event.widget_id # w.pods[p].state.id
    THEN [w |-> w,
          recurse |-> may_contain(w.pods[p].state.children, event.widget_id),
          event |-> event]
    ELSE [w |-> w, recurse |-> TRUE, event |-> EvTimer(event.token)]

\* Event::Wheel.
EvWheelAt(pos) == [kind |-> "Wheel", pos |-> pos]

\* Faulty variant: the wheel position is handed on as received.
ArmWheelUntranslated(w, p, event, rect, had_active) ==
    [w |-> w, recurse |-> had_active \/ w.pods[p].state.is_hot, event |-> event]

\* WidgetPod::event, Event::Wheel: no hit test; the position is translated.
ArmWheel(w, p, event, rect, had_active) ==
    [w |-> w,
     recurse |-> had_active \/ w.pods[p].state.is_hot,
     event |-> [event EXCEPT !.pos = PtSub(event.pos, origin(rect))]]

\* Event::KeyDown, Event::KeyUp and Event::Paste.
KeyKinds == {"KeyDown", "KeyUp", "Paste"}
EvKey(kind) == [kind |-> kind, pos |-> ZeroVec]

\* EventCtx::has_focus: the pod's has_focus flag.
has_focus(st) == st.has_focus

\* WidgetPod::event, Event::KeyDown, Event::KeyUp and Event::Paste.
ArmKey(w, p, event, had_active) ==
    [w |-> w, recurse |-> has_focus(w.pods[p].state), event |-> event]

\* Event::WindowConnected and Event::WindowSize.
WindowKinds == {"WindowConnected", "WindowSize"}
EvWindow(kind) == [kind |-> kind, pos |-> ZeroVec]

\* EventCtx::request_layout.
request_layout(st) == [st EXCEPT !.needs_layout = TRUE]

\* WidgetPod::event, Event::WindowSize: a layout is requested, and the widget
\* is handed the event only when the caller is the window (ctx.is_root).
ArmWindowSize(w, p, event, is_root) ==
    [w |-> [w EXCEPT !.pods[p].state = request_layout(@)], recurse |-> is_root, event |-> event]

\* WidgetPod::event, the match on the event; the caller c is the window when
\* it is CtxIdx.
EventMatch(w, p, c, event, had_active) ==
    LET rect == layout_rect(w.pods[p].state)
    IN CASE event.kind \in {"MouseDown", "MouseUp"} ->
                ArmMouseButton(set_hot_state(w, p, rect, {event.pos}), p, event, rect, had_active)
         [] event.kind = "MouseMove" ->
                ArmMouseMove(set_hot_state(w, p, rect, {event.pos}), p, event, rect, had_active)
         [] event.kind = "TargetedCommand" -> ArmTargetedCommand(w, p, event)
         [] event.kind = "Command" -> [w |-> w, recurse |-> TRUE, event |-> event]
         [] event.kind = "RouteTimer" -> ArmRouteTimer(w, p, event)
         [] event.kind \in KeyKinds -> ArmKey(w, p, event, had_active)
         [] event.kind = "Wheel" -> ArmWheel(w, p, event, rect, had_active)
         [] event.kind = "WindowConnected" -> [w |-> w, recurse |-> TRUE, event |-> event]
         [] event.kind = "WindowSize" -> ArmWindowSize(w, p, event, c = CtxIdx)
         [] event.kind = "Timer" -> [w |-> w, recurse |-> FALSE, event |-> event]

RECURSIVE PodEvent(_, _, _, _, _), EventChildren(_, _, _, _)

\* Widget::event of a container (Either::event): the event is handed on to
\* every child pod, in order, with the container's own context r.
EventChildren(r, p, cs, event) ==
    IF cs = <<>> THEN r
    ELSE EventChildren(PodEvent(r.w, Head(cs), p, event, r.handled), p, Tail(cs), event)

\* BaseState::add_timer: the token is recorded with the pod's own id.
add_timer(st, timer_token) ==
    [st EXCEPT !.timers = TimersExtend(@, {<<timer_token, st.id>>})]

\* EventCtx::request_timer: a new token (here the number of deliveries of the
\* pass so far, which no other request of the pass has) is recorded.
request_timer(st, timer_token) == [add_timer(st, timer_token) EXCEPT !.request_timer = TRUE]

\* EventCtx::request_focus: the pod asks for the focus.
request_focus(st) == [st EXCEPT !.request_focus = {st.id}]

\* What every widget does with an event: it is recorded, with its token if it
\* has one, and a widget handed a command asks for a timer.
Received(w, p, event) ==
    CASE event.kind = "Command" ->
            [w EXCEPT !.log = Append(w.log, LogEntry(p, event.kind, FALSE, event.pos)),
                      !.pods[p].state = IF p \in event.asks
                                        THEN request_focus(request_timer(@, Len(w.log) + 1))
                                        ELSE request_timer(@, Len(w.log) + 1)]
      [] event.kind \in {"Timer", "RouteTimer"} ->
            [w EXCEPT !.log = Append(w.log, [pod |-> p, kind |-> event.kind, b |-> FALSE,
                                             pos |-> event.pos, token |-> event.token])]
      [] OTHER ->
            [w EXCEPT !.log = Append(w.log, LogEntry(p, event.kind, FALSE, event.pos))]

\* The inner widget's event: recorded, then a leaf acts on it and a container
\* hands it on to its children.
WidgetEvent(w, p, event) ==
    LET w1 == Received(w, p, event)
    IN IF ChildrenOf(p) = <<>>
       THEN [w |-> [w1 EXCEPT !.pods[p].state = LeafEvent(@, event)],
             handled |-> set_handled(p, event)]
       ELSE EventChildren([w |-> w1, handled |-> FALSE], p, ChildrenOf(p), event)

\* child_ctx.base_state.has_active |= child_ctx.base_state.is_active.
RebuildActive(r, p) ==
    [w |-> [r.w EXCEPT !.pods[p].state.has_active = @ \/ r.w.pods[p].state.is_active],
     handled |-> r.handled]

\* Faulty variant: has_active is not cleared before the widget handles the event.
EventRecurseKeepActive(m, p) ==
    IF m.recurse
    THEN RebuildActive(WidgetEvent(m.w, p, m.event), p)
    ELSE [w |-> m.w, handled |-> FALSE]

\* WidgetPod::event, the recursion after the match m: has_active is rebuilt
\* from the widget's own is_active and what its children merge up.
EventRecurse(m, p) ==
    IF m.recurse
    THEN RebuildActive(WidgetEvent([m.w EXCEPT !.pods[p].state.has_active = FALSE], p, m.event), p)
    ELSE [w |-> m.w, handled |-> FALSE]

\* Faulty variant: the pod's is_handled is not passed on to the caller.
EventFinishHandledDropped(r, p, c, ctx_handled) ==
    [w |-> [MergeUp(r.w, p, c) EXCEPT !.pods[p].state.timers = {}],
     handled |-> ctx_handled]

\* Faulty variant: the pod's timers are cleared before they are merged.
EventFinishTimersLost(r, p, c, ctx_handled) ==
    [w |-> MergeUp([r.w EXCEPT !.pods[p].state.timers = {}], p, c),
     handled |-> ctx_handled \/ r.handled]

\* WidgetPod::event after the recursion returned r: the merge into the
\* caller's state, the timers cleared, is_handled passed on.
EventFinish(r, p, c, ctx_handled) ==
    [w |-> [MergeUp(r.w, p, c) EXCEPT !.pods[p].state.timers = {}],
     handled |-> ctx_handled \/ r.handled]

\* WidgetPod::event after the match m: a panic in the match unwinds, else the
\* recursion and the merge follow.
EventAfterMatch(m, p, c, ctx_handled) ==
    IF m.w.panicked THEN [w |-> m.w, handled |-> ctx_handled]
    ELSE EventFinish(EventRecurse(m, p), p, c, ctx_handled)

\* WidgetPod::event, the warning logged when a pod that was never laid out
\* receives an event other than WindowConnected and WindowSize.
WarnNotLaidOut(w, p, event) ==
    IF event.kind \notin WindowKinds /\ w.pods[p].state.layout_rect = {}
    THEN [w EXCEPT !.log = Append(@, LogEntry(p, "warn_not_laid_out", FALSE, event.pos))]
    ELSE w

\* WidgetPod::event after the warnings: nothing is done when the caller's
\* context is already handled.
EventAfterWarn(w, p, c, event, ctx_handled) ==
    IF ctx_handled THEN [w |-> w, handled |-> ctx_handled]
    ELSE EventAfterMatch(EventMatch(w, p, c, event, w.pods[p].state.has_active), p, c, ctx_handled)

\* WidgetPod::event on pod p, called with the context of pod c, whose
\* is_handled flag is ctx_handled. Returns the world and ctx.is_handled.
PodEvent(w, p, c, event, ctx_handled) ==
    IF w.panicked THEN [w |-> w, handled |-> ctx_handled]
    ELSE EventAfterWarn(WarnNotLaidOut(w, p, event), p, c, event, ctx_handled)

\* ------------------------------------------------------------------ layout
\* WidgetPod::set_layout_rect after set_hot_state returned h: the pod's state
\* is merged into the caller's when the hot state changed.
MergeIfChanged(h, p, c) == IF h.changed THEN MergeUp(h.w, p, c) ELSE h.w

\* Faulty variant: the pod's state is merged whether or not is_hot changed.
set_layout_rect_always_merged(w, p, c, rect, mouse_pos) ==
    MergeUp(set_hot_state([w EXCEPT !.pods[p].state.layout_rect = {rect}], p, rect, mouse_pos).w,
            p, c)

\* WidgetPod::set_layout_rect on pod p, called with the context of pod c.
set_layout_rect(w, p, c, rect, mouse_pos) ==
    MergeIfChanged(set_hot_state([w EXCEPT !.pods[p].state.layout_rect = {rect}], p, rect, mouse_pos),
                   p, c)

RECURSIVE PodLayout(_, _, _, _, _), LayoutChildren(_, _, _, _, _)

\* Widget::layout of a container (Either::layout): each child is laid out and
\* then given its rectangle; rects is the arrangement the containers choose.
LayoutChildren(w, p, cs, mouse_pos, rects) ==
    IF cs = <<>> THEN w
    ELSE LayoutChildren(set_layout_rect(PodLayout(w, Head(cs), p, mouse_pos, rects),
                                        Head(cs), p, rects[Head(cs)], mouse_pos),
                        p, Tail(cs), mouse_pos, rects)

\* Faulty variant: the pod's needs_layout flag is not cleared.
PodLayoutKeepFlag(w, p, c, mouse_pos, rects) ==
    LET child_mouse_pos == {PtSub(pos, origin(layout_rect(w.pods[p].state))) : pos \in mouse_pos}
    IN MergeUp(LayoutChildren(w, p, ChildrenOf(p), child_mouse_pos, rects), p, c)

\* WidgetPod::layout on pod p, called with the context of pod c.
PodLayout(w, p, c, mouse_pos, rects) ==
    LET child_mouse_pos == {PtSub(pos, origin(layout_rect(w.pods[p].state))) : pos \in mouse_pos}
    IN MergeUp(LayoutChildren([w EXCEPT !.pods[p].state.needs_layout = FALSE],
                              p, ChildrenOf(p), child_mouse_pos, rects),
               p, c)

\* Window::layout: the root is laid out and placed at the origin.
WindowLayout(w, mouse_pos, rects) ==
    set_layout_rect(PodLayout(w, Root, CtxIdx, mouse_pos, rects), Root, CtxIdx, rects[Root], mouse_pos)

\* The window's rectangle, and the rectangles a container may give a child.
WinRect == Rc(0, 0, MaxX, MaxY + 1)
RectPool == {Rc(0, 0, 1, 1), Rc(1, 0, 2, 1)}
Layouts == {f \in [Pods -> RectPool \cup {WinRect}] :
                f[Root] = WinRect /\ \A p \in Pods \ {Root} : f[p] \in RectPool}

\* ------------------------------------------------------------------ update
RECURSIVE PodUpdate(_, _, _, _, _), UpdateChildren(_, _, _, _, _)

\* A container's update handing the data on to each child pod, in order.
UpdateChildren(w, p, cs, d, e) ==
    IF cs = <<>> THEN w
    ELSE UpdateChildren(PodUpdate(w, Head(cs), p, d, e), p, Tail(cs), d, e)

\* The inner widget's update, handed the snapshot and the new data: recorded;
\* a leaf does nothing (Slider::update), a container requests a repaint when
\* the value it shows changed and updates its children (Either::update).
WidgetUpdate(w, p, old, d, e) ==
    LET w1 == [w EXCEPT !.log = Append(w.log, [pod |-> p, kind |-> "update", b |-> FALSE,
                                                pos |-> ZeroVec, old |-> old])]
    IN IF ChildrenOf(p) = <<>> THEN w1
       ELSE UpdateChildren(IF old[p] # d[p] THEN [w1 EXCEPT !.pods[p].state = invalidate(@)] ELSE w1,
                           p, ChildrenOf(p), d, e)

\* self.old_data = Some(data.clone()); self.env = Some(env.clone()).
StoreSnapshot(w, p, v, e) == [w EXCEPT !.pods[p].old_data = {v}, !.pods[p].env = {e}]

\* log::warn!("old_data missing in {:?}, skipping update", self.id()).
WarnOldDataMissing(w, p) ==
    [w EXCEPT !.log = Append(@, LogEntry(p, "warn_old_data_missing", FALSE, ZeroVec))]

\* Faulty variant: a pod without snapshot is merged into its caller's state.
PodUpdateMissingMerged(w, p, c, d, e) ==
    LET pod == w.pods[p]
        v == View(p, d)
    IN IF /\ pod.old_data # {} /\ pod.env # {}
          /\ \A o \in pod.old_data : same(o, v)
          /\ \A oe \in pod.env : same(oe, e)
       THEN w
       ELSE IF pod.old_data = {}
       THEN MergeUp(StoreSnapshot(WarnOldDataMissing(w, p), p, v, e), p, c)
       ELSE MergeUp(StoreSnapshot(WidgetUpdate(w, p, CHOOSE o \in pod.old_data : TRUE, d, e),
                                  p, v, e),
                    p, c)

\* Faulty variant: the widget is updated also when data and environment are the
\* same as the snapshot.
PodUpdateNoSameCheck(w, p, c, d, e) ==
    LET pod == w.pods[p]
        v == View(p, d)
    IN IF pod.old_data = {}
       THEN StoreSnapshot(WarnOldDataMissing(w, p), p, v, e)
       ELSE MergeUp(StoreSnapshot(WidgetUpdate(w, p, CHOOSE o \in pod.old_data : TRUE, d, e),
                                  p, v, e),
                    p, c)

\* WidgetPod::update on pod p, called with the context of pod c.
PodUpdate(w, p, c, d, e) ==
    LET pod == w.pods[p]
        v == View(p, d)
    IN IF /\ pod.old_data # {} /\ pod.env # {}
          /\ \A o \in pod.old_data : same(o, v)
          /\ \A oe \in pod.env : same(oe, e)
       THEN w
       ELSE IF pod.old_data = {}
       THEN StoreSnapshot(WarnOldDataMissing(w, p), p, v, e)
       ELSE MergeUp(StoreSnapshot(WidgetUpdate(w, p, CHOOSE o \in pod.old_data : TRUE, d, e),
                                  p, v, e),
                    p, c)

\* ------------------------------------------------------------------- paint
RECURSIVE PodPaint(_, _, _), PaintChildren(_, _, _, _)

\* Faulty variant: the pod's layout rect is tested instead of its paint rect.
paint_with_offset_impl_unpadded(w, p, region, paint_if_not_visible) ==
    LET st == w.pods[p].state
        o == origin(layout_rect(st))
    IN IF ~paint_if_not_visible /\ RegionIntersect(region, layout_rect(st)) = EmptyRegion
       THEN w
       ELSE PodPaint(w, p, RegionTranslate(RegionIntersect(region, paint_rect(st)), Pt(0 - o.x, 0 - o.y)))

\* WidgetPod::paint_with_offset_impl on pod p: skipped when the region misses
\* the pod's paint rect; else painted with the visible part of the region, in
\* the pod's own coordinates.
paint_with_offset_impl(w, p, region, paint_if_not_visible) ==
    LET st == w.pods[p].state
        o == origin(layout_rect(st))
    IN IF ~paint_if_not_visible /\ RegionIntersect(region, paint_rect(st)) = EmptyRegion
       THEN w
       ELSE PodPaint(w, p, RegionTranslate(RegionIntersect(region, paint_rect(st)), Pt(0 - o.x, 0 - o.y)))

\* WidgetPod::paint_with_offset and WidgetPod::paint_with_offset_always.
paint_with_offset(w, p, region) == paint_with_offset_impl(w, p, region, FALSE)
paint_with_offset_always(w, p, region) == paint_with_offset_impl(w, p, region, TRUE)

\* A container's paint painting each child pod at its offset, in order.
PaintChildren(w, p, cs, region) ==
    IF cs = <<>> THEN w
    ELSE PaintChildren(paint_with_offset(w, Head(cs), region), p, Tail(cs), region)

\* The inner widget's paint: recorded; a container paints its children.
WidgetPaint(w, p, region) ==
    PaintChildren([w EXCEPT !.log = Append(w.log, LogEntry(p, "paint", FALSE, ZeroVec))],
                  p, ChildrenOf(p), region)

\* Faulty variant: only the part that was painted is taken off the invalid region.
PodPaintKeepUnpainted(w, p, region) ==
    [WidgetPaint(w, p, region) EXCEPT !.pods[p].state.invalid = @ \ region]

\* WidgetPod::paint on pod p with the region to repaint.
PodPaint(w, p, region) ==
    [WidgetPaint(w, p, region) EXCEPT !.pods[p].state.invalid = EmptyRegion]

\* ------------------------------------------------------------------- boxed
\* How many ids the counter hands out after the tree was built.
MaxBoxed == 2

\* WidgetId::next: the process-wide counter, above every id handed out so far.
WidgetIdNext(ps) == 1 + (CHOOSE m \in {ps[q].state.id : q \in Pods} :
                            \A q \in Pods : ps[q].state.id <= m)

\* WidgetPod::new(inner): the widget's own id if it declares one (wid), else
\* the next id of the counter; fresh state, no snapshot.
WidgetPodNewFor(ps, wid) ==
    WidgetPodNew(IF wid # {} THEN CHOOSE i \in wid : TRUE ELSE WidgetIdNext(ps))

\* WidgetPod::boxed: WidgetPod::new around the boxed widget.
boxed(ps, wid) == WidgetPodNewFor(ps, wid)

\* WidgetPod::id.
id(pod) == pod.state.id

\* The world a pass starts from: the caller's context is a fresh BaseState.
World == [pods |-> [pods EXCEPT ![CtxIdx] = CtxNew], log |-> <<>>, added |-> added,
          panicked |-> panicked]

Commit(w) ==
    /\ pods' = w.pods
    /\ log' = w.log
    /\ added' = w.added
    /\ panicked' = w.panicked

NoOp == [kind |-> "none", event |-> LcAnimFrame, pod |-> CtxIdx]

\* --------------------------------------------------- lifecycle scenarios
InitLife ==
    /\ parent \in Shapes
    /\ present = {Root}
    /\ pods = [p \in 0..MaxPods |-> IF p = CtxIdx THEN CtxNew ELSE WidgetPodNew(p)]
    /\ focus = {}
    /\ mouse = {}
    /\ data = [p \in Pods |-> 0]
    /\ env = 0
    /\ log = <<>>
    /\ added = [p \in Pods |-> 0]
    /\ op = NoOp
    /\ panicked = FALSE

\* A container gains a child pod (WidgetPod::new) and calls children_changed();
\* the flag reaches every ancestor through merge_up when the pass returns.
LifeAddChild ==
    \E n \in Pods \ present :
        /\ ~panicked
        /\ parent[n] \in present
        /\ present' = present \cup {n}
        /\ pods' = [q \in 0..MaxPods |->
                      IF q = n THEN WidgetPodNew(n)
                      ELSE IF q \in Ancestors(n)
                      THEN [pods[q] EXCEPT !.state.children_changed = TRUE]
                      ELSE pods[q]]
        /\ log' = <<>>
        /\ op' = [kind |-> "add_child", event |-> LcAnimFrame, pod |-> n]
        /\ UNCHANGED <<parent, focus, mouse, data, env, added, panicked>>

\* The window routes RouteWidgetAdded from the root.
LifeRouteWidgetAdded ==
    /\ ~panicked
    /\ Commit(PodLifecycle(World, Root, CtxIdx, LcRouteWidgetAdded, data, env))
    /\ op' = [kind |-> "lifecycle", event |-> LcRouteWidgetAdded, pod |-> Root]
    /\ UNCHANGED <<parent, present, focus, mouse, data, env>>

\* LifeCycle::WidgetAdded handed to a freshly built root (tests::register_children).
LifeWidgetAdded ==
    /\ ~panicked
    /\ pods[Root].old_data = {}
    /\ Commit(PodLifecycle(World, Root, CtxIdx, LcWidgetAdded, data, env))
    /\ op' = [kind |-> "lifecycle", event |-> LcWidgetAdded, pod |-> Root]
    /\ UNCHANGED <<parent, present, focus, mouse, data, env>>

\* The pods a focus request can name: those registered with their ancestors.
Focusable == {p \in present : pods[p].old_data # {}}

\* The window routes a focus change {old: focus, new} from the root and
\* records the new focus.
LifeRouteFocusChanged ==
    \E new \in {{}} \cup {{p} : p \in Focusable} :
        /\ ~panicked
        /\ pods[Root].old_data # {}
        /\ Commit(PodLifecycle(World, Root, CtxIdx, LcRouteFocusChanged(focus, new), data, env))
        /\ focus' = new
        /\ op' = [kind |-> "lifecycle", event |-> LcRouteFocusChanged(focus, new), pod |-> Root]
        /\ UNCHANGED <<parent, present, mouse, data, env>>

NextLife ==
    \/ LifeAddChild
    \/ LifeRouteWidgetAdded
    \/ LifeWidgetAdded
    \/ LifeRouteFocusChanged

SpecLife == InitLife /\ [][NextLife]_vars

\* ------------------------------------------------------- event scenarios
\* A tree whose pods were all built (WidgetPod::new) and not yet added.
InitEvent ==
    /\ parent \in Shapes
    /\ present = Pods
    /\ pods = [p \in 0..MaxPods |-> IF p = CtxIdx THEN CtxNew ELSE WidgetPodNew(p)]
    /\ focus = {}
    /\ mouse = {}
    /\ data = [p \in Pods |-> 0]
    /\ env = 0
    /\ log = <<>>
    /\ added = [p \in Pods |-> 0]
    /\ op = NoOp
    /\ panicked = FALSE

\* The window connects: the tree is added (RouteWidgetAdded) and then laid out
\* for the first time, with no pointer position known.
EvSetup ==
    \E rects \in Layouts :
        /\ pods[Root].old_data = {}
        /\ LET w1 == PodLifecycle(World, Root, CtxIdx, LcRouteWidgetAdded, data, env)
               w2 == WindowLayout([w1 EXCEPT !.pods[CtxIdx] = CtxNew, !.log = <<>>], {}, rects)
           IN Commit(w2)
        /\ op' = [kind |-> "layout", event |-> LcAnimFrame, pod |-> Root]
        /\ UNCHANGED <<parent, present, focus, mouse, data, env>>

\* The window hands a pointer event to the root and remembers the position.
EventPass(event) ==
    /\ pods[Root].old_data # {}
    /\ ~panicked
    /\ Commit(PodEvent(World, Root, CtxIdx, event, FALSE).w)
    /\ mouse' = {event.pos}
    /\ op' = [kind |-> "event", event |-> event, pod |-> Root]
    /\ UNCHANGED <<parent, present, focus, data, env>>

EvMove == \E pos \in Positions : EventPass(EvMouseMove(pos))
EvDown == \E pos \in Positions : EventPass(EvMouseDown(pos))
EvUp == \E pos \in Positions : EventPass(EvMouseUp(pos))

\* The window runs a layout pass in which the containers rearrange their
\* children.
EvLayout ==
    \E rects \in Layouts :
        /\ pods[Root].old_data # {}
        /\ Commit(WindowLayout(World, mouse, rects))
        /\ op' = [kind |-> "layout", event |-> LcAnimFrame, pod |-> Root,
                  flagged |-> {p \in present : pods[p].state.needs_layout}]
        /\ UNCHANGED <<parent, present, focus, mouse, data, env>>

NextEvent == EvSetup \/ EvMove \/ EvDown \/ EvUp \/ EvLayout
SpecEvent == InitEvent /\ [][NextEvent]_vars

\* Pointer moves only, over the layout of the first pass.
NextMove == EvSetup \/ EvMove
SpecMove == InitEvent /\ [][NextMove]_vars

\* ------------------------------------------------------ update scenarios
\* The application changes the data of one pod's lens, or the environment.
UpData ==
    /\ \/ \E p \in Pods, v \in 0..MaxVal :
             data' = [data EXCEPT ![p] = v] /\ data' # data /\ env' = env
       \/ \E v \in 0..MaxVal : env' = v /\ env' # env /\ data' = data
    /\ log' = <<>>
    /\ op' = [kind |-> "data", event |-> LcAnimFrame, pod |-> Root]
    /\ UNCHANGED <<parent, present, pods, focus, mouse, added, panicked>>

\* The window runs an update pass from the root with the current data.
UpUpdate ==
    /\ Commit(PodUpdate(World, Root, CtxIdx, data, env))
    /\ op' = [kind |-> "update", event |-> LcAnimFrame, pod |-> Root]
    /\ UNCHANGED <<parent, present, focus, mouse, data, env>>

NextUpdate == EvSetup \/ UpData \/ UpUpdate
SpecUpdate == InitEvent /\ [][NextUpdate]_vars

\* ------------------------------------------------------- paint scenarios
\* The regions the window may be asked to repaint.
Regions == {EmptyRegion} \cup {RegionOfRect(r) : r \in RectPool \cup {WinRect}}

\* Window::paint: the root is painted with the requested region.
PaintPass ==
    \E region \in Regions :
        /\ pods[Root].old_data # {}
        /\ Commit(PodPaint(World, Root, region))
        /\ op' = [kind |-> "paint", event |-> LcAnimFrame, pod |-> Root, region |-> region,
                  dirty |-> {p \in present : pods[p].state.invalid # EmptyRegion}]
        /\ UNCHANGED <<parent, present, focus, mouse, data, env>>

NextPaint == EvSetup \/ EvMove \/ EvDown \/ PaintPass
SpecPaint == InitEvent /\ [][NextPaint]_vars

\* ------------------------------------------------------ boxed scenarios
\* A pod is converted with boxed() before it took part in any pass, as the
\* containers do (WidgetPod::new(w).boxed()); its widget either declares its
\* own id (which WidgetPod::new then used for the pod) or declares none.
Boxed ==
    \E p \in present, declares \in BOOLEAN :
        /\ WidgetIdNext(pods) <= MaxPods + MaxBoxed
        /\ pods[p].old_data = {} /\ added[p] = 0
        /\ pods' = [pods EXCEPT ![p] = boxed(pods, IF declares THEN {id(pods[p])} ELSE {})]
        /\ log' = <<>>
        /\ op' = [kind |-> "boxed", event |-> LcAnimFrame, pod |-> p]
        /\ UNCHANGED <<parent, present, focus, mouse, data, env, added, panicked>>

NextBoxed == EvSetup \/ EvMove \/ LifeRouteWidgetAdded \/ Boxed
SpecBoxed == InitEvent /\ [][NextBoxed]_vars

\* ------------------------------------------------------ box constraints
\* Widths and heights: 0..MaxDim, and Infinity above them all.
MaxDim == 2
Infinity == MaxDim + 1
Dims == 0..Infinity
Sizes == [width : Dims, height : Dims]

\* Size::clamp: each dimension raised to the minimum, then lowered to the
\* maximum.
clamp(size, lo, hi) ==
    [width |-> Min(Max(size.width, lo.width), hi.width),
     height |-> Min(Max(size.height, lo.height), hi.height)]

\* BoxConstraints::new and BoxConstraints::tight.
BoxConstraintsNew(lo, hi) == [min |-> lo, max |-> hi]
tight(size) == [min |-> size, max |-> size]

\* Faulty variant: the size is raised to the minimum but not lowered to the
\* maximum.
constrain_min_only(bc, size) == clamp(size, bc.min, [width |-> Infinity, height |-> Infinity])

\* BoxConstraints::constrain.
constrain(bc, size) == clamp(size, bc.min, bc.max)

\* Window::layout: the root is laid out under tight(window size); the root
\* widget answers with the constrained size of its content (Slider: bc.max),
\* which becomes the root's rect at the origin.
Window_layout(win_size, content) ==
    LET bc == tight(win_size)
        size == constrain(bc, content)
    IN [bc |-> bc, size |-> size, rect |-> Rc(0, 0, size.width, size.height)]

\* The tree stands still while a function of the library is applied.
Still == UNCHANGED <<parent, present, pods, focus, mouse, data, env, log, added, panicked>>

\* A tree that takes no part in the function applied.
InitStill ==
    /\ parent = [p \in Pods |-> IF p = Root THEN 0 ELSE Root]
    /\ present = {Root}
    /\ pods = [p \in 0..MaxPods |-> IF p = CtxIdx THEN CtxNew ELSE WidgetPodNew(p)]
    /\ focus = {}
    /\ mouse = {}
    /\ data = [p \in Pods |-> 0]
    /\ env = 0
    /\ log = <<>>
    /\ added = [p \in Pods |-> 0]
    /\ panicked = FALSE

\* Any constraints and any size.
InitConstrain ==
    /\ InitStill
    /\ \E lo \in Sizes, hi \in Sizes, size \in Sizes :
          op = [kind |-> "input", bc |-> BoxConstraintsNew(lo, hi), size |-> size]

\* bc.constrain(size).
Constrain ==
    /\ op.kind = "input"
    /\ op' = [kind |-> "constrain", bc |-> op.bc, size |-> op.size,
              result |-> constrain(op.bc, op.size)]
    /\ Still

\* Window::layout for a window of size bc.max and a root whose content has the
\* given size.
WinLayout ==
    /\ op.kind = "input"
    /\ op' = [kind |-> "window_layout", bc |-> tight(op.bc.max), size |-> op.size,
              result |-> Window_layout(op.bc.max, op.size).size]
    /\ Still

NextConstrain == Constrain \/ WinLayout
SpecConstrain == InitConstrain /\ [][NextConstrain]_vars

\* ------------------------------------------------- layout, sizes returned
\* The dimensions of a size for which WidgetPod::layout logs a warning.
LayoutWarnings(size) ==
    {d \in {"width", "height"} : IF d = "width" THEN size.width = Infinity
                                 ELSE size.height = Infinity}

\* Faulty variant: an infinite size aborts the layout before the merge.
WidgetPodLayoutAbortInfinite(w, p, c, mouse_pos, rects, size) ==
    IF LayoutWarnings(size) # {}
    THEN [w |-> [w EXCEPT !.panicked = TRUE], size |-> size, warnings |-> LayoutWarnings(size)]
    ELSE [w |-> PodLayout(w, p, c, mouse_pos, rects), size |-> size, warnings |-> {}]

\* WidgetPod::layout with its result: the inner widget answers with size, the
\* pod's state is merged into the caller's, infinite dimensions are warned
\* about, and size is returned.
WidgetPodLayout(w, p, c, mouse_pos, rects, size) ==
    [w |-> PodLayout(w, p, c, mouse_pos, rects), size |-> size,
     warnings |-> LayoutWarnings(size)]

LayoutCommit(r, size) ==
    /\ Commit(r.w)
    /\ op' = [kind |-> "pod_layout", event |-> LcAnimFrame, pod |-> Root,
              size |-> size, result |-> r.size, warnings |-> r.warnings]

\* A container lays the root pod out; the root's widget answers with any size.
LayoutSized ==
    \E rects \in Layouts, size \in Sizes :
        /\ pods[Root].old_data # {}
        /\ ~panicked
        /\ LayoutCommit(WidgetPodLayout(World, Root, CtxIdx, mouse, rects, size), size)
        /\ UNCHANGED <<parent, present, focus, mouse, data, env>>

NextSized == EvSetup \/ EvDown \/ LayoutSized
SpecSized == InitEvent /\ [][NextSized]_vars

\* ---------------------------------------------------- command scenarios
\* The window hands a targeted command to the root.
CommandPass ==
    \E target \in Targets :
        /\ pods[Root].old_data # {}
        /\ ~panicked
        /\ Commit(PodEvent(World, Root, CtxIdx, EvTargetedCommand(target), FALSE).w)
        /\ op' = [kind |-> "event", event |-> EvTargetedCommand(target), pod |-> Root]
        /\ UNCHANGED <<parent, present, focus, mouse, data, env>>

NextCommand == EvSetup \/ EvMove \/ CommandPass
SpecCommand == InitEvent /\ [][NextCommand]_vars

\* ---------------------------------------------------------------- commands
\* Selectors, and the values a command may carry, each with its type.
Selectors == {"my-selector", "other-selector"}
Types == {"i32", "Vec<i32>"}
Args == [type : Types, value : 0..MaxVal]

\* Command::new: the argument becomes the payload.
CommandNew(selector, arg) == [selector |-> selector, object |-> {arg}]

\* From<Selector> for Command: no payload.
CommandFrom(selector) == [selector |-> selector, object |-> {}]

\* Faulty variant: every payload is returned, whatever its type.
get_object_any_type(c, T) == {obj.value : obj \in c.object}

\* Command::get_object::<T>: the payload, if there is one and it is a T.
get_object(c, T) == {obj.value : obj \in {o \in c.object : o.type = T}}

\* Faulty variant: a command with a payload equals no selector.
CommandEqSelectorNoPayload(c, sel) == c.selector = sel /\ c.object = {}

\* PartialEq<Selector> for Command.
CommandEqSelector(c, sel) == c.selector = sel

\* PartialEq<Command> for Selector.
SelectorEqCommand(sel, c) == sel = c.selector

\* Any way of building a command, any selector to compare with and any type
\* to ask for.
InitCommandValue ==
    /\ InitStill
    /\ \E selector \in Selectors, arg \in Args, with_arg \in BOOLEAN,
          sel \in Selectors, T \in Types :
          op = [kind |-> "input", selector |-> selector, arg |-> arg,
                with_arg |-> with_arg, sel |-> sel, T |-> T]

\* The command is built with Command::new or from the bare selector.
CmdBuild ==
    /\ op.kind = "input"
    /\ op' = [kind |-> "command", with_arg |-> op.with_arg, arg |-> op.arg,
              sel |-> op.sel, T |-> op.T,
              c |-> IF op.with_arg THEN CommandNew(op.selector, op.arg)
                    ELSE CommandFrom(op.selector)]
    /\ Still

\* c == sel and sel == c.
CmdCompare ==
    /\ op.kind = "command"
    /\ op' = [kind |-> "compare", c |-> op.c, sel |-> op.sel,
              c_eq_sel |-> CommandEqSelector(op.c, op.sel),
              sel_eq_c |-> SelectorEqCommand(op.sel, op.c)]
    /\ Still

\* c.get_object::<T>().
CmdGetObject ==
    /\ op.kind = "command"
    /\ op' = [kind |-> "get_object", c |-> op.c, with_arg |-> op.with_arg,
              arg |-> op.arg, T |-> op.T, result |-> get_object(op.c, op.T)]
    /\ Still

NextCommandValue == CmdBuild \/ CmdCompare \/ CmdGetObject
SpecCommandValue == InitCommandValue /\ [][NextCommandValue]_vars

\* -------------------------------------------------------------- window ids
\* The width of the counter in bits (u32 in the source), and the threads that
\* allocate ids.
IdBits == 3
NumThreads == 3
IdSpace == 2^IdBits
Threads == 1..NumThreads

\* Faulty variant: the counter saturates instead of wrapping.
fetch_add_saturating(counter, n) ==
    [prev |-> counter, next |-> Min(counter + n, IdSpace - 1)]

\* AtomicU32::fetch_add: the previous value is returned, the sum wraps.
fetch_add(counter, n) == [prev |-> counter, next |-> (counter + n) % IdSpace]

\* WINDOW_ID_COUNTER starts at 1; no thread holds an id, none was returned.
InitWindowId ==
    /\ InitStill
    /\ op = [kind |-> "window_id", counter |-> 1, started |-> 0,
             local |-> [t \in Threads |-> {}],
             returned |-> [i \in 0..(IdSpace - 1) |-> 0]]

\* WindowId::new on thread t, first half: the atomic fetch_add.
WinIdFetch(t) ==
    /\ op.local[t] = {}
    /\ op.started <= IdSpace
    /\ op' = [op EXCEPT !.counter = fetch_add(op.counter, 1).next,
                        !.started = @ + 1,
                        !.local[t] = {fetch_add(op.counter, 1).prev}]
    /\ Still

\* WindowId::new on thread t, second half: WindowId(id) is returned.
WinIdReturn(t) ==
    /\ op.local[t] # {}
    /\ op' = [op EXCEPT !.local[t] = {},
                        !.returned = [i \in 0..(IdSpace - 1) |->
                                         IF i \in op.local[t] THEN @[i] + 1 ELSE @[i]]]
    /\ Still

NextWindowId == \E t \in Threads : WinIdFetch(t) \/ WinIdReturn(t)
SpecWindowId == InitWindowId /\ [][NextWindowId]_vars

\* ------------------------------------------------ handled-event scenarios
EventCommit(r, event) ==
    /\ Commit(r.w)
    /\ mouse' = {event.pos}
    /\ op' = [kind |-> "event", event |-> event, pod |-> Root, handled |-> r.handled]

\* The window hands a press to the root and looks at ctx.is_handled afterwards.
HandledDown ==
    \E pos \in Positions :
        /\ pods[Root].old_data # {}
        /\ ~panicked
        /\ EventCommit(PodEvent(World, Root, CtxIdx, EvMouseDown(pos), FALSE), EvMouseDown(pos))
        /\ UNCHANGED <<parent, present, focus, data, env>>

NextHandled == EvSetup \/ UpData \/ HandledDown
SpecHandled == InitEvent /\ [][NextHandled]_vars

\* ------------------------------------------------------- timer scenarios
\* A timer that the last pass left with the window fires: the window routes it
\* to the owner recorded with the token.
TimerPass ==
    \E t \in pods[CtxIdx].state.timers :
        /\ pods[Root].old_data # {}
        /\ ~panicked
        /\ Commit(PodEvent(World, Root, CtxIdx, EvRouteTimer(t[1], t[2]), FALSE).w)
        /\ op' = [kind |-> "event", event |-> EvRouteTimer(t[1], t[2]), pod |-> Root]
        /\ UNCHANGED <<parent, present, focus, mouse, data, env>>

NextTimer == EvSetup \/ EvMove \/ CommandPass \/ TimerPass
SpecTimer == InitEvent /\ [][NextTimer]_vars

\* ---------------------------------------------------- keyboard scenarios
\* The window hands a keyboard or paste event to the root.
KeyPass ==
    \E kind \in KeyKinds :
        /\ pods[Root].old_data # {}
        /\ ~panicked
        /\ Commit(PodEvent(World, Root, CtxIdx, EvKey(kind), FALSE).w)
        /\ op' = [kind |-> "event", event |-> EvKey(kind), pod |-> Root]
        /\ UNCHANGED <<parent, present, focus, mouse, data, env>>

NextKey == EvSetup \/ EvMove \/ LifeRouteFocusChanged \/ KeyPass
SpecKey == InitEvent /\ [][NextKey]_vars

\* ------------------------------------------------ window-event scenarios
\* The window hands WindowConnected or WindowSize to the root.
WindowEventPass ==
    \E kind \in WindowKinds :
        /\ pods[Root].old_data # {}
        /\ ~panicked
        /\ Commit(PodEvent(World, Root, CtxIdx, EvWindow(kind), FALSE).w)
        /\ op' = [kind |-> "event", event |-> EvWindow(kind), pod |-> Root]
        /\ UNCHANGED <<parent, present, focus, mouse, data, env>>

NextWindow == EvSetup \/ EvMove \/ EvLayout \/ WindowEventPass
SpecWindow == InitEvent /\ [][NextWindow]_vars

\* ------------------------------------------------------- wheel scenarios
\* The window hands a wheel event at the pointer's position to the root.
EvWheel ==
    \E pos \in mouse :
        /\ pods[Root].old_data # {}
        /\ ~panicked
        /\ Commit(PodEvent(World, Root, CtxIdx, EvWheelAt(pos), FALSE).w)
        /\ op' = [kind |-> "event", event |-> EvWheelAt(pos), pod |-> Root]
        /\ UNCHANGED <<parent, present, focus, mouse, data, env>>

NextWheel == EvSetup \/ EvMove \/ EvDown \/ EvUp \/ EvWheel
SpecWheel == InitEvent /\ [][NextWheel]_vars

\* ------------------------------------------- children added and removed
\* A container drops a child pod with everything below it and calls
\* children_changed(); the flag reaches every ancestor through merge_up when
\* the pass returns. The dropped pods are gone: a pod added at their place
\* later is a new one.
LifeRemoveChild ==
    \E n \in present \ {Root} :
        /\ ~panicked
        /\ present' = present \ Subtree(n)
        /\ pods' = [q \in 0..MaxPods |->
                      IF q \in Subtree(n) THEN WidgetPodNew(q)
                      ELSE IF q \in Ancestors(n)
                      THEN [pods[q] EXCEPT !.state.children_changed = TRUE]
                      ELSE pods[q]]
        /\ added' = [q \in Pods |-> IF q \in Subtree(n) THEN 0 ELSE added[q]]
        /\ log' = <<>>
        /\ op' = [kind |-> "remove_child", event |-> LcAnimFrame, pod |-> n]
        /\ UNCHANGED <<parent, focus, mouse, data, env, panicked>>

NextChurn == LifeAddChild \/ LifeRemoveChild \/ LifeRouteWidgetAdded \/ LifeWidgetAdded
SpecChurn == InitLife /\ [][NextChurn]_vars

\* ------------------------------------------------------ focus requests
\* The window hands the root a command to which the widgets of asks respond
\* by asking for the focus.
RequestPass ==
    \E asks \in SUBSET present :
        /\ pods[Root].old_data # {}
        /\ ~panicked
        /\ Commit(PodEvent(World, Root, CtxIdx, EvCommandAsking(asks), FALSE).w)
        /\ op' = [kind |-> "event", event |-> EvCommandAsking(asks), pod |-> Root]
        /\ UNCHANGED <<parent, present, focus, mouse, data, env>>

NextRequest == LifeAddChild \/ LifeRouteWidgetAdded \/ RequestPass \/ LifeRouteFocusChanged
SpecRequest == InitLife /\ [][NextRequest]_vars

\* ------------------------------------------- events before the first layout
\* Pods join a laid-out tree and pointer events arrive before the next layout.
NextUnlaid == LifeAddChild \/ LifeRouteWidgetAdded \/ EvLayout \/ EvMove \/ EvDown
SpecUnlaid == InitLife /\ [][NextUnlaid]_vars

\* -------------------------------------------------- set_layout_rect alone
\* What one call leaves: the pod's state and the caller's.
SetLayoutRectResult(inp, w) ==
    [kind |-> "set_layout_rect", state |-> inp.state, rect |-> inp.rect,
     mouse_pos |-> inp.mouse_pos, pod |-> w.pods[Root].state, ctx |-> w.pods[CtxIdx].state]

\* A pod that was or was not laid out before (and may be hot if it was), a
\* rectangle and the mouse position of the caller's context, if known.
InitSetLayoutRect ==
    /\ InitStill
    /\ \E lr \in {{}} \cup {{r} : r \in RectPool}, hot \in BOOLEAN, nl \in BOOLEAN,
          iv \in {EmptyRegion, {Pt(0, 0)}}, rect \in RectPool \cup {WinRect},
          mouse_pos \in {{}} \cup {{pos} : pos \in Positions} :
          /\ lr = {} => ~hot
          /\ op = [kind |-> "input",
                   state |-> [BaseStateNew(Root) EXCEPT !.layout_rect = lr, !.is_hot = hot,
                                                        !.needs_layout = nl, !.invalid = iv],
                   rect |-> rect, mouse_pos |-> mouse_pos]

\* pod.set_layout_rect(ctx, data, env, rect).
SetLayoutRect ==
    /\ op.kind = "input"
    /\ op' = SetLayoutRectResult(op,
                 set_layout_rect([World EXCEPT !.pods[Root].state = op.state],
                                 Root, CtxIdx, op.rect, op.mouse_pos))
    /\ Still

NextSetLayoutRect == SetLayoutRect
SpecSetLayoutRect == InitSetLayoutRect /\ [][NextSetLayoutRect]_vars

\* ------------------------------------------------------------ Action::merge
\* How many further results one caller merges into the first.
MaxMerges == 6

\* Action { text }, and Option<Action>.
Actions == {[text |-> "a"], [text |-> "b"]}
OptionAction == {{}} \cup {{a} : a \in Actions}

\* Faulty variant: with both present, the first is returned and the other
\* dropped.
merge_keep_first(this, other) ==
    [value |-> IF this # {} THEN this ELSE other, aborted |-> FALSE]

\* Action::merge: the value returned, or the abort of the failed assert.
merge(this, other) ==
    IF this # {}
    THEN IF other = {} THEN [value |-> this, aborted |-> FALSE]
         ELSE [value |-> {}, aborted |-> TRUE]
    ELSE [value |-> other, aborted |-> FALSE]

\* Any two optional actions.
InitActionMerge ==
    /\ InitStill
    /\ \E this \in OptionAction, other \in OptionAction :
          op = [kind |-> "input", this |-> this, other |-> other, count |-> 0]

\* Action::merge(this, other).
ActionMerge ==
    /\ op.kind = "input"
    /\ op' = [kind |-> "merge", this |-> op.this, other |-> op.other, count |-> op.count,
              value |-> merge(op.this, op.other).value,
              aborted |-> merge(op.this, op.other).aborted]
    /\ Still

\* The caller goes on to merge the next child's result into what it has.
ActionNext ==
    /\ op.kind = "merge" /\ ~op.aborted /\ op.count < MaxMerges
    /\ \E other \in OptionAction :
          op' = [kind |-> "input", this |-> op.value, other |-> other, count |-> op.count + 1]
    /\ Still

NextActionMerge == ActionMerge \/ ActionNext
SpecActionMerge == InitActionMerge /\ [][NextActionMerge]_vars

\* ------------------------------------------------------ merge_up alone
\* The rects, insets, offsets and regions that the two states are drawn from.
MergeRects == {{}, {Rc(0, 0, 2, 1)}, {Rc(1, 0, 3, 1)}}
MergeInsets == {ZeroInsets, Rc(1, 0, 1, 0)}
MergeOffsets == {ZeroVec, Pt(1, 0)}
MergeRegions == {EmptyRegion, {Pt(0, 0)}, {Pt(0, 0), Pt(1, 0), Pt(2, 0)}, {Pt(0, 0), Pt(4, 0)}}

\* The flags that merge_up folds.
MergeFlags == {"needs_layout", "request_anim", "request_timer", "has_active", "has_focus",
               "children_changed"}
\* State st with exactly the flags of S set.
WithFlags(st, S) ==
    [st EXCEPT !.needs_layout = "needs_layout" \in S, !.request_anim = "request_anim" \in S,
               !.request_timer = "request_timer" \in S, !.has_active = "has_active" \in S,
               !.has_focus = "has_focus" \in S, !.children_changed = "children_changed" \in S]

\* A parent and a child state: any geometry, or any flags, or any focus
\* requests and timers.
InitMerge ==
    /\ InitStill
    /\ \/ \E pr \in MergeRects, pi \in MergeInsets, pv \in MergeRegions,
             cr \in MergeRects, co \in MergeOffsets, cv \in MergeRegions :
             op = [kind |-> "input",
                   self |-> [BaseStateNew(1) EXCEPT !.layout_rect = pr, !.paint_insets = pi,
                                                    !.invalid = pv],
                   child |-> [BaseStateNew(2) EXCEPT !.layout_rect = cr, !.viewport_offset = co,
                                                     !.invalid = cv]]
       \/ \E pf \in SUBSET MergeFlags, cf \in SUBSET MergeFlags, b \in BOOLEAN :
             op = [kind |-> "input",
                   self |-> WithFlags([BaseStateNew(1) EXCEPT
                                          !.is_hot = b, !.is_active = ~b,
                                          !.layout_rect = {Rc(0, 0, 2, 1)},
                                          !.children = BloomAdd(BloomNew, 2),
                                          !.focus_chain = IF b THEN <<2>> ELSE <<>>], pf),
                   child |-> WithFlags([BaseStateNew(2) EXCEPT
                                          !.is_hot = ~b, !.is_active = b,
                                          !.layout_rect = {Rc(1, 0, 2, 1)},
                                          !.children = BloomAdd(BloomNew, 3),
                                          !.focus_chain = <<3>>], cf)]
       \/ \E pq \in {{}, {1}, {3}}, cq \in {{}, {2}},
             pt \in SUBSET {<<1, 1>>, <<3, 3>>}, ct \in SUBSET {<<2, 2>>, <<4, 2>>} :
             op = [kind |-> "input",
                   self |-> [BaseStateNew(1) EXCEPT !.request_focus = pq, !.timers = pt],
                   child |-> [BaseStateNew(2) EXCEPT !.request_focus = cq, !.timers = ct]]

\* self.merge_up(&child).
MergeApply ==
    /\ op.kind = "input"
    /\ op' = [kind |-> "merge_up", self |-> op.self, child |-> op.child,
              result |-> merge_up(op.self, op.child)]
    /\ Still

NextMerge == MergeApply
SpecMerge == InitMerge /\ [][NextMerge]_vars

\* ------------------------------------------------ paint_with_offset alone
\* What one call leaves: whether the widget was painted, and the pod's
\* invalid region.
PaintOffsetResult(inp, r) ==
    [kind |-> "paint_with_offset", state |-> inp.state, region |-> inp.region,
     always |-> inp.always, painted |-> r.log # <<>>, invalid |-> r.pods[Root].state.invalid]

\* A laid-out pod with or without paint insets and dirty cells, a region to
\* repaint and the variant called.
InitPaintOffset ==
    /\ InitStill
    /\ \E lr \in MergeRects, pi \in MergeInsets, iv \in MergeRegions,
          region \in Regions \cup {{Pt(0, 0)}, {Pt(3, 0)}}, always \in BOOLEAN :
          op = [kind |-> "input",
                state |-> [BaseStateNew(Root) EXCEPT !.layout_rect = lr, !.paint_insets = pi,
                                                     !.invalid = iv],
                region |-> region, always |-> always]

\* pod.paint_with_offset(ctx, ..) or pod.paint_with_offset_always(ctx, ..).
PaintOffset ==
    /\ op.kind = "input"
    /\ op' = PaintOffsetResult(op,
                 IF op.always
                 THEN paint_with_offset_always([World EXCEPT !.pods[Root].state = op.state],
                                               Root, op.region)
                 ELSE paint_with_offset([World EXCEPT !.pods[Root].state = op.state],
                                        Root, op.region))
    /\ Still

NextPaintOffset == PaintOffset
SpecPaintOffset == InitPaintOffset /\ [][NextPaintOffset]_vars

\* ------------------------------------------------------------ the claims
\* How often pod p's widget was handed an event of this kind and flag in the
\* last pass.
LogCount(p, kind, b) ==
    Cardinality({i \in DOMAIN log : log[i].pod = p /\ log[i].kind = kind /\ log[i].b = b})
Delivered(p, kind) == \E i \in DOMAIN log : log[i].pod = p /\ log[i].kind = kind

AddedPass == op.kind = "lifecycle" /\ op.event.kind \in {"WidgetAdded", "RouteWidgetAdded"}
FocusPass == op.kind = "lifecycle" /\ op.event.kind = "RouteFocusChanged"

\* C1: after LifeCycle::WidgetAdded was delivered through WidgetPod::lifecycle
\* to a pod, the filter of the calling context (the parent pod's state, or the
\* caller's scratch state for the root) may_contain the id of that pod and of
\* every pod in its subtree.
C1_AddedRegistered ==
    AddedPass =>
        \A p \in present :
            Delivered(p, "WidgetAdded") =>
                \A q \in Subtree(p) : may_contain(pods[parent[p]].state.children, pods[q].state.id)

\* C1 witness: WidgetAdded reached a non-root pod that has a child of its own.
C1_Witness ==
    /\ AddedPass
    /\ \E p \in present \ {Root} :
          /\ Delivered(p, "WidgetAdded")
          /\ \E q \in Subtree(p) : q # p

\* C4 (the claim as stated): a RouteFocusChanged{old: A, new: B} pass with
\* A # B hands exactly one FocusChanged(false) to A's widget, exactly one
\* FocusChanged(true) to B's widget and no FocusChanged to any other widget,
\* wherever A and B are in the tree.
C4_FocusNotifications ==
    (FocusPass /\ op.event.old # {} /\ op.event.new # {} /\ op.event.old # op.event.new) =>
        \A p \in present :
            /\ LogCount(p, "FocusChanged", FALSE) = (IF op.event.old = {p} THEN 1 ELSE 0)
            /\ LogCount(p, "FocusChanged", TRUE) = (IF op.event.new = {p} THEN 1 ELSE 0)

\* C9 (the claim as stated): has_focus is true exactly on the pods on the path
\* from the root to the focused pod.
C9_FocusPath ==
    \A p \in present :
        pods[p].state.has_focus <=> \E f \in focus : p = f \/ p \in Ancestors(f)

\* C10: each pod's widget receives WidgetAdded exactly once: never twice, a pod
\* holds a snapshot exactly when its widget has received it, the snapshot is the
\* data and environment of that pass, and after a WidgetAdded or
\* RouteWidgetAdded pass every pod of the tree has received it.
C10_AddedOnce ==
    /\ \A p \in Pods :
          /\ added[p] <= 1
          /\ (added[p] = 1) <=> (pods[p].old_data # {})
          /\ pods[p].old_data # {} => pods[p].old_data = {View(p, data)} /\ pods[p].env = {env}
    /\ AddedPass => \A p \in present : added[p] = 1

\* C10 witness: a second RouteWidgetAdded pass hands WidgetAdded to a pod that
\* was added to the tree later, and not again to the root.
C10_Witness ==
    /\ AddedPass
    /\ ~Delivered(Root, "WidgetAdded")
    /\ \E p \in present \ {Root} : Delivered(p, "WidgetAdded")

\* The pointer position pos in the coordinate space in which pod p's layout
\* rect is expressed: pos less the origins of the rects of p's ancestors.
RECURSIVE LocalPos(_, _)
LocalPos(p, pos) ==
    IF parent[p] = CtxIdx THEN pos
    ELSE PtSub(LocalPos(parent[p], pos), origin(layout_rect(pods[parent[p]].state)))

\* The last delivered pointer position lies within pod p's layout rect.
InRect(p) == \E pos \in mouse : winding(layout_rect(pods[p].state), LocalPos(p, pos))

MovePass == op.kind = "event" /\ op.event.kind = "MouseMove"

\* C2 (the claim as stated): after each MouseMove delivered from the root,
\* every pod is hot exactly when the last delivered pointer position lies
\* within the pod's current layout rect.
C2_HotIffInside ==
    MovePass => \A p \in present : pods[p].state.is_hot <=> InRect(p)

\* The positions in a log at which pod p's widget was handed HotChanged, and
\* those at which it was handed a pointer event.
HotAt(l, p) == {i \in DOMAIN l : l[i].pod = p /\ l[i].kind = "HotChanged"}
PointerAt(l, p) == {i \in DOMAIN l : l[i].pod = p /\ l[i].kind \in {"MouseDown", "MouseUp", "MouseMove"}}

\* C3: in every pass (pointer event or layout), a pod whose is_hot flag changed
\* has its widget handed HotChanged exactly once, carrying the new value, before
\* the pointer event of that pass is handed to it; a pod whose is_hot flag did
\* not change has its widget handed no HotChanged.
C3_HotChangedPerEdge ==
    [][\A p \in Pods :
          IF pods[p].state.is_hot # pods'[p].state.is_hot
          THEN /\ Cardinality(HotAt(log', p)) = 1
               /\ \A i \in HotAt(log', p) :
                     /\ log'[i].b = pods'[p].state.is_hot
                     /\ \A j \in PointerAt(log', p) : i < j
          ELSE HotAt(log', p) = {}]_vars

\* C3 witness: a pointer event made a pod lose its hot state, and its widget
\* was told before it was handed the event.
C3_Witness ==
    /\ op.kind = "event"
    /\ \E p \in present : \E i \in HotAt(log, p) :
          ~log[i].b /\ ~pods[p].state.is_hot /\ \E j \in PointerAt(log, p) : i < j

\* has_active marks exactly the pods that are active or have an active pod
\* below them.
ActiveSubtree ==
    \A p \in present :
        pods[p].state.has_active <=> \E q \in Subtree(p) : pods[q].state.is_active

Siblings(a) == {b \in present : b # a /\ parent[b] = parent[a]}

\* Pod a was made active by the pointer-down of this step, inside its rect.
PressedInside(a) ==
    /\ op'.kind = "event" /\ op'.event.kind = "MouseDown"
    /\ ~pods[a].state.is_active /\ pods'[a].state.is_active
    /\ InRect(a)'

\* C5 (the claim as stated): after every event pass has_active marks exactly
\* the pods with an active pod in their subtree, and a pointer-down inside A
\* that makes A active leaves A active and hot, has_active true on every
\* ancestor of A, and is_active, is_hot and has_active of every sibling of A
\* unchanged.
C5_AsStated ==
    [][/\ op'.kind = "event" => ActiveSubtree'
       /\ \A a \in present :
             PressedInside(a) =>
                 /\ pods'[a].state.is_active /\ pods'[a].state.is_hot
                 /\ \A q \in Ancestors(a) : pods'[q].state.has_active
                 /\ \A b \in Siblings(a) :
                       /\ pods'[b].state.is_active = pods[b].state.is_active
                       /\ pods'[b].state.is_hot = pods[b].state.is_hot
                       /\ pods'[b].state.has_active = pods[b].state.has_active]_vars

\* C5 (amended): as stated, for the siblings B of A whose rect does not hold
\* the position: B's is_active and has_active are unchanged and B is not hot
\* afterwards.
C5_ActivePropagation ==
    [][/\ op'.kind = "event" => ActiveSubtree'
       /\ \A a \in present :
             PressedInside(a) =>
                 /\ pods'[a].state.is_active /\ pods'[a].state.is_hot
                 /\ \A q \in Ancestors(a) : pods'[q].state.has_active
                 /\ \A b \in Siblings(a) :
                       ~InRect(b)' =>
                           /\ pods'[b].state.is_active = pods[b].state.is_active
                           /\ ~pods'[b].state.is_hot
                           /\ pods'[b].state.has_active = pods[b].state.has_active]_vars

\* C5 witness: a pointer-down inside a pod's rect made it active while a sibling
\* of it does not hold the position.
C5_Witness ==
    /\ op.kind = "event" /\ op.event.kind = "MouseDown"
    /\ \E a \in present \ {Root} :
          /\ PointerAt(log, a) # {} /\ pods[a].state.is_active /\ InRect(a)
          /\ pods[a].state.is_hot /\ pods[Root].state.has_active
          /\ \E b \in Siblings(a) : ~InRect(b) /\ ~pods[b].state.is_active

\* C6: a pod that is active when a MouseMove or MouseUp pass starts has its
\* widget handed that event, wherever the pointer is; and when the pod is no
\* longer active after a MouseUp pass, has_active is false on it and on every
\* ancestor of it.
C6_ActiveCapture ==
    [][(op'.kind = "event" /\ op'.event.kind \in {"MouseMove", "MouseUp"}) =>
          \A a \in present :
              pods[a].state.is_active =>
                  /\ \E i \in PointerAt(log', a) : log'[i].kind = op'.event.kind
                  /\ (op'.event.kind = "MouseUp" /\ ~pods'[a].state.is_active) =>
                        /\ ~pods'[a].state.has_active
                        /\ \A q \in Ancestors(a) : ~pods'[q].state.has_active]_vars

\* C6 witness: a MouseUp outside every layout rect reached the widget of a pod
\* below a non-root container, which is hot no longer and released the pointer.
C6_Witness ==
    /\ op.kind = "event" /\ op.event.kind = "MouseUp"
    /\ \A p \in present : ~InRect(p)
    /\ \E a \in present :
          /\ parent[a] # Root /\ parent[a] # CtxIdx
          /\ \E i \in PointerAt(log, a) : log[i].kind = "MouseUp"
          /\ \E j \in HotAt(log, a) : ~log[j].b
          /\ ~pods[a].state.is_active /\ ~pods[Root].state.has_active
          /\ pods[a].state.invalid # EmptyRegion

\* WidgetPod::update was called on pod p in the pass recorded in log l: on the
\* root by the window, on another pod by its parent's widget.
UpdateCalled(l, p) ==
    p = Root \/ \E i \in DOMAIN l : l[i].pod = parent[p] /\ l[i].kind = "update"

\* C7: when WidgetPod::update is called on a pod whose snapshot is the same as
\* the data and environment of the call, no widget of the pod's subtree has its
\* update invoked, the pods of the subtree (state record and snapshot) are
\* unchanged, and for the root nothing is merged into the caller's state.
C7_UpdateSameIsNoOp ==
    [][op'.kind = "update" =>
          \A p \in present :
              (/\ UpdateCalled(log', p)
               /\ pods[p].old_data # {} /\ pods[p].env # {}
               /\ \A o \in pods[p].old_data : same(o, View(p, data))
               /\ \A oe \in pods[p].env : same(oe, env)) =>
                  /\ \A q \in Subtree(p) :
                        /\ \A i \in DOMAIN log' : log'[i].pod # q
                        /\ pods'[q] = pods[q]
                  /\ p = Root => pods'[CtxIdx] = CtxNew]_vars

\* C7 witness: an update pass that found the root's snapshot the same as the
\* data, after an earlier pass in which changed data made a container request a
\* repaint.
C7_Witness ==
    /\ op.kind = "update" /\ log = <<>>
    /\ pods[Root].old_data = {View(Root, data)} /\ pods[Root].env = {env}
    /\ \E p \in present : data[p] # 0 /\ pods[p].state.invalid # EmptyRegion

\* C8: after a paint pass, every pod on which WidgetPod::paint ran has an
\* empty invalid region, whatever region was requested and whatever the pod's
\* invalid region was before.
C8_PaintClearsInvalid ==
    op.kind = "paint" =>
        \A p \in present : Delivered(p, "paint") => pods[p].state.invalid = EmptyRegion

\* C8 witness: a paint pass with a region that does not cover the window ran
\* on a non-root pod whose invalid region was not empty before.
C8_Witness ==
    /\ op.kind = "paint" /\ op.region # RegionOfRect(WinRect)
    /\ \E p \in op.dirty \ {Root} : Delivered(p, "paint")

\* The last pass handed WidgetAdded itself to a root without a snapshot.
FreshAddedPass == op.kind = "lifecycle" /\ op.event.kind = "WidgetAdded"

\* C11: after one WidgetAdded pass over a freshly built tree, the caller's
\* filter counts as many entries as the tree has pods, every pod's filter
\* counts the pods below it, and every pod's widget was handed WidgetAdded
\* once.
C11_EntryCount ==
    FreshAddedPass =>
        /\ pods[CtxIdx].state.children.entry_count = Cardinality(Subtree(Root))
        /\ \A p \in present :
              /\ pods[p].state.children.entry_count = Cardinality(Subtree(p)) - 1
              /\ LogCount(p, "WidgetAdded", FALSE) = 1

\* C11 witness: the pass ran over a tree of MaxPods pods.
C11_Witness ==
    /\ FreshAddedPass
    /\ present = Pods
    /\ pods[CtxIdx].state.children.entry_count = MaxPods

\* C12: whatever passes ran (event, lifecycle, layout) and whichever pods were
\* converted with boxed(), id() of every pod is the id the pod was created
\* with by WidgetPod::new.
C12_IdImmutable == \A p \in Pods : id(pods[p]) = p

SizeLeq(a, b) == a.width <= b.width /\ a.height <= b.height

\* C13: under constraints with min <= max in both dimensions, constrain(s)
\* lies between min and max in each dimension and is s when s already does;
\* under the tight constraints of the window the root's size is exactly the
\* window size.
C13_ConstrainClamps ==
    /\ (op.kind = "constrain" /\ SizeLeq(op.bc.min, op.bc.max)) =>
          /\ SizeLeq(op.bc.min, op.result) /\ SizeLeq(op.result, op.bc.max)
          /\ (SizeLeq(op.bc.min, op.size) /\ SizeLeq(op.size, op.bc.max)) => op.result = op.size
    /\ op.kind = "window_layout" => op.result = op.bc.max

\* C13 witness: a content size larger than the window in both dimensions was
\* clamped to the window size.
C13_Witness ==
    /\ op.kind = "window_layout"
    /\ op.size.width > op.bc.max.width /\ op.size.height > op.bc.max.height
    /\ op.result = op.bc.max

\* C14: WidgetPod::layout warns about exactly the infinite dimensions of the
\* size its widget answered with, and completes all the same: nothing panics,
\* the pod's state is merged into the caller's, and the size is returned
\* unchanged.
C14_InfiniteSizeWarns ==
    op.kind = "pod_layout" =>
        /\ op.warnings = LayoutWarnings(op.size)
        /\ ~panicked
        /\ op.result = op.size
        /\ pods[CtxIdx].state = merge_up(BaseStateNew(CtxIdx), pods[Root].state)

\* C14 witness: a layout that answered with an infinite width and height merged
\* an active descendant into the caller's state.
C14_Witness ==
    /\ op.kind = "pod_layout"
    /\ op.warnings = {"width", "height"}
    /\ op.result.width = Infinity
    /\ pods[CtxIdx].state.has_active

\* C15: a TargetedCommand with Target::Global handed to WidgetPod::event panics
\* and reaches no widget.
C15_GlobalTargetPanics ==
    (op.kind = "event" /\ op.event.kind = "TargetedCommand" /\ op.event.target.kind = "Global") =>
        panicked /\ log = <<>>

\* C15 witness: a global target was handed to a tree laid out and under the
\* pointer, and the call panicked.
C15_Witness ==
    /\ op.kind = "event" /\ op.event.kind = "TargetedCommand"
    /\ op.event.target = TargetGlobal
    /\ mouse # {}
    /\ panicked

\* C16: c == sel and sel == c are both the equality of c's selector with sel,
\* whether c carries a payload or not.
C16_SelectorEquality ==
    op.kind = "compare" =>
        /\ op.c_eq_sel = (op.c.selector = op.sel)
        /\ op.sel_eq_c = (op.c.selector = op.sel)

\* C16 witness: a command carrying a payload compared equal to its selector.
C16_Witness ==
    /\ op.kind = "compare"
    /\ op.c.object # {}
    /\ op.c_eq_sel /\ op.sel_eq_c

\* C17: get_object::<T>() of a command built by Command::new(selector, arg) is
\* Some(arg) when T is the type of arg and None when it is another type; of a
\* command built from a bare selector it is None.
C17_GetObject ==
    op.kind = "get_object" =>
        /\ (op.with_arg /\ op.T = op.arg.type) => op.result = {op.arg.value}
        /\ (op.with_arg /\ op.T # op.arg.type) => op.result = {}
        /\ ~op.with_arg => op.result = {}

\* C17 witness: the payload of a command was asked for with another type than
\* its own, and nothing was returned.
C17_Witness ==
    /\ op.kind = "get_object"
    /\ op.with_arg /\ op.T # op.arg.type
    /\ op.result = {}

\* How many calls of WindowId::new obtained id i, returned or about to return.
Handed(i) == op.returned[i] + Cardinality({t \in Threads : op.local[t] = {i}})

\* C18: while at most 2^IdBits ids have been allocated, no id was handed to
\* two calls, on whichever threads they ran; the counter is the number of
\* allocations plus one, modulo 2^IdBits, and the allocation after 2^IdBits
\* of them repeats an id.
C18_WindowIdUnique ==
    /\ op.started <= IdSpace => \A i \in 0..(IdSpace - 1) : Handed(i) <= 1
    /\ op.counter = (1 + op.started) % IdSpace
    /\ op.started = IdSpace + 1 => Handed(1) = 2

\* C18 witness: every id of the space was returned once and the counter has
\* wrapped to its first value.
C18_Witness ==
    /\ op.started = IdSpace
    /\ \A i \in 0..(IdSpace - 1) : op.returned[i] = 1
    /\ op.counter = 1

\* C19: a pod has a data snapshot only if WidgetAdded was delivered to its
\* widget before, whatever update, event and lifecycle passes ran.
C19_SnapshotOnlyAfterAdded ==
    \A p \in Pods : pods[p].old_data # {} => added[p] >= 1

\* The pass was a press whose is_handled flag was observed.
HandledPass == op.kind = "event" /\ op.event.kind = "MouseDown" /\ "handled" \in DOMAIN op

\* The i-th delivery of the pass was the press, to a leaf that marked it handled.
Marked(i) ==
    /\ log[i].kind = "MouseDown"
    /\ ChildrenOf(log[i].pod) = <<>>
    /\ set_handled(log[i].pod, op.event)

\* C20: once a widget marked the press handled, no widget receives it
\* afterwards (later siblings at every level are skipped), and the caller's
\* is_handled is true after the call exactly when some widget marked it.
C20_HandledShortCircuit ==
    HandledPass =>
        /\ \A i \in 1..Len(log) : Marked(i) => i = Len(log)
        /\ op.handled = (\E i \in 1..Len(log) : Marked(i))

\* C20 witness: a child marked the press handled and a later sibling under the
\* same position, which was untouched before, did not receive it.
C20_Witness ==
    /\ HandledPass
    /\ op.handled
    /\ \E p \in Pods, q \in Pods :
          /\ p < q /\ parent[p] = parent[q]
          /\ LogCount(p, "MouseDown", FALSE) = 1
          /\ LogCount(q, "MouseDown", FALSE) = 0
          /\ InRect(q)

\* The pass handed a targeted command with the given kind of target to the root.
CommandPassTo(kind) ==
    op.kind = "event" /\ op.event.kind = "TargetedCommand" /\ op.event.target.kind = kind

\* C21: a command for the window reaches every pod's widget as Command; a
\* command for a widget id reaches the widget of the pod with that id as
\* Command, and on the way there it is handed, still as a routing event, only
\* to widgets of pods whose filter may contain the id; a command for an id no
\* pod has reaches no widget as Command.
C21_CommandRouting ==
    /\ CommandPassTo("Window") =>
          \A p \in present : LogCount(p, "Command", FALSE) = 1
                             /\ ~Delivered(p, "TargetedCommand")
    /\ CommandPassTo("Widget") =>
          /\ \A p \in present : id(pods[p]) = op.event.target.id => Delivered(p, "Command")
          /\ \A p \in present :
                Delivered(p, "TargetedCommand") =>
                    /\ id(pods[p]) # op.event.target.id
                    /\ may_contain(pods[p].state.children, op.event.target.id)
          /\ \A p \in present :
                Delivered(p, "Command") =>
                    \E q \in Ancestors(p) \cup {p} : id(pods[q]) = op.event.target.id

\* C21 witness: a command for a pod two levels down went through its parent
\* as a routing event and reached the target as Command.
C21_Witness ==
    /\ CommandPassTo("Widget")
    /\ \E p \in present :
          /\ parent[p] # Root /\ p # Root
          /\ id(pods[p]) = op.event.target.id
          /\ Delivered(p, "Command")
          /\ Delivered(parent[p], "TargetedCommand")

\* C21 witness of a false positive: a command for an id no pod has was handed
\* on by a pod whose filter may contain it, and reached no widget as Command.
C21_StrayVisit ==
    /\ CommandPassTo("Widget")
    /\ op.event.target.id = StrayId
    /\ \E p \in present : Delivered(p, "TargetedCommand")

TimerFired == op.kind = "event" /\ op.event.kind = "RouteTimer"

\* C22: when a timer fires, Event::Timer with its token is handed to the
\* widget of the pod that asked for it and to no other widget, and the routing
\* event is handed only to widgets of pods that are not the owner and whose
\* filter may contain the owner's id.
C22_TimerToOwner ==
    TimerFired =>
        /\ \A p \in present :
              LogCount(p, "Timer", FALSE) = (IF id(pods[p]) = op.event.widget_id THEN 1 ELSE 0)
        /\ \A i \in DOMAIN log : log[i].kind = "Timer" => log[i].token = op.event.token
        /\ \A p \in present :
              Delivered(p, "RouteTimer") =>
                  /\ id(pods[p]) # op.event.widget_id
                  /\ may_contain(pods[p].state.children, op.event.widget_id)

\* C22 witness: the timer of a pod that has a parent and a child was fired;
\* the parent's widget saw the routing event, the owner's widget the timer,
\* the child's widget nothing.
C22_Witness ==
    /\ TimerFired
    /\ \E p \in present, q \in present :
          /\ parent[q] = p /\ p # Root
          /\ id(pods[p]) = op.event.widget_id
          /\ Delivered(parent[p], "RouteTimer")
          /\ LogCount(p, "Timer", FALSE) = 1
          /\ ~Delivered(q, "Timer") /\ ~Delivered(q, "RouteTimer")

KeyPassed == op.kind = "event" /\ op.event.kind \in KeyKinds

\* The pods from the root down to the focused pod.
FocusPath == UNION {Ancestors(f) \cup {f} : f \in focus}

\* C23, the flag: in a keyboard or paste pass a pod's widget is handed the
\* event exactly when the pod's call was reached (its parent's widget was
\* handed it) and the pod's has_focus flag is set.
C23_KeyIffHasFocus ==
    KeyPassed =>
        \A p \in present :
            Delivered(p, op.event.kind) <=>
                /\ has_focus(pods[p].state)
                /\ p # Root => Delivered(parent[p], op.event.kind)

\* C23 (the claim as stated): the flag rule above, and so no pod off the focus
\* path is handed a keyboard or paste event.
C23_KeyOnFocusPath ==
    /\ C23_KeyIffHasFocus
    /\ KeyPassed => \A p \in present : Delivered(p, op.event.kind) => p \in FocusPath

WindowEventPassed == op.kind = "event" /\ op.event.kind \in WindowKinds

\* C24, WindowSize: the root's widget alone is handed the event, and the root
\* and its caller are left with a layout request.
C24_WindowSizeRootOnly ==
    (op.kind = "event" /\ op.event.kind = "WindowSize") =>
        /\ \A p \in present : Delivered(p, "WindowSize") <=> p = Root
        /\ pods[Root].state.needs_layout
        /\ pods[CtxIdx].state.needs_layout

\* C24 (the claim as stated): WindowConnected and WindowSize are handed to the
\* root's widget and to no other pod's widget, and WindowSize leaves a layout
\* request.
C24_WindowEventsRootOnly ==
    /\ C24_WindowSizeRootOnly
    /\ WindowEventPassed => \A p \in present : Delivered(p, op.event.kind) <=> p = Root

\* Pod p's event call was made in the pass that log l records: p is the root,
\* or its parent's widget was handed the pointer event.
Reached(l, p) == p = Root \/ PointerAt(l, parent[p]) # {}

\* C25: in a pointer pass, a pod whose event call is made hit-tests the
\* position against its layout rect, and its widget is handed the event
\* exactly when the pod had has_active before, or is hot after the hit test,
\* or (MouseMove only) its hot state changed in this call.
C25_PointerRecursion ==
    [][(op'.kind = "event" /\ op'.event.kind \in {"MouseDown", "MouseUp", "MouseMove"}) =>
          \A p \in present :
              /\ Reached(log', p) => (pods'[p].state.is_hot <=> InRect(p)')
              /\ PointerAt(log', p) # {} <=>
                    /\ Reached(log', p)
                    /\ \/ pods[p].state.has_active
                       \/ pods'[p].state.is_hot
                       \/ /\ op'.event.kind = "MouseMove"
                          /\ pods[p].state.is_hot # pods'[p].state.is_hot]_vars

\* C25 witness: a move left a pod below the root that is neither hot nor
\* active, and its widget was handed the move all the same.
C25_Witness ==
    /\ MovePass
    /\ \E p \in present :
          /\ p # Root
          /\ ~pods[p].state.is_hot /\ ~pods[p].state.has_active
          /\ \E i \in PointerAt(log, p) : log[i].kind = "MouseMove"

\* The sum of the layout-rect origins of the pods from the root down to p.
RECURSIVE OriginSum(_)
OriginSum(p) ==
    IF p = Root THEN origin(layout_rect(pods[p].state))
    ELSE PtSub(origin(layout_rect(pods[p].state)),
               PtSub(ZeroVec, OriginSum(parent[p])))

PositionKinds == {"MouseDown", "MouseUp", "MouseMove", "Wheel"}

\* C26: the position of a MouseDown, MouseUp, MouseMove or Wheel event handed
\* to a pod's widget is the window position minus the sum of the layout-rect
\* origins of the pods from the root down to that pod.
C26_LocalPosition ==
    (op.kind = "event" /\ op.event.kind \in PositionKinds) =>
        \A i \in DOMAIN log :
            log[i].kind \in PositionKinds =>
                log[i].pos = PtSub(op.event.pos, OriginSum(log[i].pod))

\* C26 witness: a wheel event reached a widget two levels down, through a pod
\* whose origin is not the window's, with a position other than the window's.
C26_Witness ==
    /\ op.kind = "event" /\ op.event.kind = "Wheel"
    /\ \E i \in DOMAIN log :
          /\ log[i].kind = "Wheel"
          /\ parent[log[i].pod] \notin {Root, CtxIdx}
          /\ origin(layout_rect(pods[parent[log[i].pod]].state)) # ZeroVec
          /\ log[i].pos # op.event.pos

\* The rules of a RouteFocusChanged pass recorded in log l with event e, from
\* pods before to pods after, for the pods in S: the old focus is told it lost
\* the focus and the new focus that it gained it, none is told both, nothing
\* is told and has_focus stays when old = new, and the routing event is handed
\* to the widget of another pod only when its filter may contain old or new.
FocusRules(S, l, e, before, after) ==
    \A p \in S :
        LET lost == Cardinality({i \in DOMAIN l : l[i].pod = p /\ l[i].kind = "FocusChanged" /\ ~l[i].b})
            gained == Cardinality({i \in DOMAIN l : l[i].pod = p /\ l[i].kind = "FocusChanged" /\ l[i].b})
            me == before[p].state.id
        IN /\ (e.old # e.new /\ e.old = {me}) => lost = 1 /\ gained = 0
           /\ (e.old # e.new /\ e.new = {me}) => gained = 1 /\ lost = 0
           /\ lost + gained <= 1
           /\ e.old = e.new =>
                 /\ lost + gained = 0
                 /\ me \in e.old => after[p].state.has_focus = before[p].state.has_focus
           /\ (\E i \in DOMAIN l : l[i].pod = p /\ l[i].kind = "RouteFocusChanged") =>
                 /\ me \notin e.old \cup e.new
                 /\ \E t \in e.old \cup e.new : may_contain(before[p].state.children, t)

\* The pods whose lifecycle call was handed the routing event itself: the root
\* and the children of pods whose widget was handed it.
RoutedTo(l) ==
    {p \in present : p = Root \/ \E i \in DOMAIN l : l[i].pod = parent[p] /\ l[i].kind = "RouteFocusChanged"}

\* The rules of C27 for the pods that the routing event reached.
C27_FocusRulesWhereRouted ==
    [][(op'.kind = "lifecycle" /\ op'.event.kind = "RouteFocusChanged") =>
          FocusRules(RoutedTo(log'), log', op'.event, pods, pods')]_vars

\* C27 (the claim as stated): in a RouteFocusChanged{old, new} pass the pod
\* whose id is old is told FocusChanged(false) and the pod whose id is new
\* FocusChanged(true), never both, and only when old # new; with old = new
\* nothing is told and has_focus stays; any other pod hands the routing event
\* on only if its filter may contain old or new.
C27_FocusRules ==
    [][(op'.kind = "lifecycle" /\ op'.event.kind = "RouteFocusChanged") =>
          FocusRules(present, log', op'.event, pods, pods')]_vars

\* The filter and the focus chain that the pods in cs, as they are in ps,
\* register with a caller whose filter and chain were acc.
RECURSIVE Registered(_, _, _)
Registered(acc, cs, ps) ==
    IF cs = <<>> THEN acc
    ELSE Registered(RegisterChild(acc, ps[Head(cs)].state), Tail(cs), ps)

\* C28: in a RouteWidgetAdded pass a pod that had a snapshot hands the event
\* to its widget exactly when its own children_changed flag was set; then its
\* filter and focus chain are what its children register from empty, else
\* they are left as they were.
C28_RefreshIffChanged ==
    [][(op'.kind = "lifecycle" /\ op'.event.kind = "RouteWidgetAdded") =>
          \A p \in present :
              pods[p].old_data # {} =>
                  /\ (\E i \in DOMAIN log' : log'[i].pod = p /\ log'[i].kind = "RouteWidgetAdded")
                        <=> pods[p].state.children_changed
                  /\ pods[p].state.children_changed =>
                        LET r == Registered([children |-> BloomNew, focus_chain |-> <<>>],
                                            ChildrenOf(p), pods')
                        IN /\ pods'[p].state.children = r.children
                           /\ pods'[p].state.focus_chain = r.focus_chain
                  /\ ~pods[p].state.children_changed =>
                        /\ pods'[p].state.children = pods[p].state.children
                        /\ pods'[p].state.focus_chain = pods[p].state.focus_chain]_vars

\* C28 witness: a refresh pass went into a pod with two pods registered below
\* it and passed by a child of the root whose flag was not set.
C28_Witness ==
    /\ op.kind = "lifecycle" /\ op.event.kind = "RouteWidgetAdded"
    /\ \E p \in present, q \in present :
          /\ Delivered(p, "RouteWidgetAdded")
          /\ pods[p].state.children.entry_count >= 2
          /\ parent[q] = Root /\ q # p
          /\ ~Delivered(q, "RouteWidgetAdded") /\ ~Delivered(q, "WidgetAdded")

\* C29: after a WidgetAdded or RouteWidgetAdded pass from the root, whatever
\* children were added and removed before, no pod of the tree has
\* children_changed set, every pod's filter and focus chain are exactly what
\* its children register (so the filter may contain every pod below and
\* counts no pod that was removed), also in subtrees the pass did not enter,
\* and the root has registered with the caller.
C29_RegisteredAfterChurn ==
    AddedPass =>
        /\ \A p \in present :
              /\ ~pods[p].state.children_changed
              /\ pods[p].state.children =
                    Registered([children |-> BloomNew, focus_chain |-> <<>>],
                               ChildrenOf(p), pods).children
              /\ \A q \in Subtree(p) \ {p} : may_contain(pods[p].state.children, id(pods[q]))
              /\ pods[p].state.children.entry_count = Cardinality(Subtree(p)) - 1
              /\ ChildrenOf(p) # <<>> =>
                    pods[p].state.focus_chain =
                        Registered([children |-> BloomNew, focus_chain |-> <<>>],
                                   ChildrenOf(p), pods).focus_chain
        /\ pods[CtxIdx].state.children.entry_count = Cardinality(Subtree(Root))

\* C29 witness: a refresh pass after a removal went into the root only; the
\* child that stayed was not entered and is registered, and the root counts
\* the pods that are left.
C29_Witness ==
    /\ op.kind = "lifecycle" /\ op.event.kind = "RouteWidgetAdded"
    /\ log # <<>>
    /\ \A i \in DOMAIN log : log[i].pod = Root /\ log[i].kind = "RouteWidgetAdded"
    /\ \E p \in present \ {Root} :
          /\ may_contain(pods[Root].state.children, id(pods[p]))
          /\ pods[Root].state.focus_chain = pods[p].state.focus_chain
          /\ pods[p].state.focus_chain # <<>>
    /\ present # Pods
    /\ pods[Root].state.children.entry_count = Cardinality(present) - 1

\* Cell c lies in the padded bounds of state st: its layout rect moved to the
\* origin and enlarged by its paint insets.
InPaddedBounds(st, c) ==
    LET r == layout_rect(st)
    IN /\ c.x >= 0 - st.paint_insets.x0 /\ c.x < (r.x1 - r.x0) + st.paint_insets.x1
       /\ c.y >= 0 - st.paint_insets.y0 /\ c.y < (r.y1 - r.y0) + st.paint_insets.y1

\* Cell c of the child's space, seen in the parent's space.
InParentSpace(child, c) ==
    Pt(c.x + origin(layout_rect(child)).x - child.viewport_offset.x,
       c.y + origin(layout_rect(child)).y - child.viewport_offset.y)

\* C30: after merge_up the parent's invalid region is its previous region
\* together with exactly those cells of the child's region that, moved by the
\* child's origin minus its viewport offset, lie in the parent's padded
\* bounds.
C30_MergeClipsRegion ==
    op.kind = "merge_up" =>
        /\ op.self.invalid \subseteq op.result.invalid
        /\ \A c \in op.result.invalid \ op.self.invalid :
              /\ InPaddedBounds(op.self, c)
              /\ \E d \in op.child.invalid : InParentSpace(op.child, d) = c
        /\ \A d \in op.child.invalid :
              InPaddedBounds(op.self, InParentSpace(op.child, d)) =>
                  InParentSpace(op.child, d) \in op.result.invalid

\* C30 witness: of a child's region some cells entered the parent's region,
\* one of them within the insets only, and some were cut off; the parent's
\* previous region was kept.
C30_Witness ==
    /\ op.kind = "merge_up"
    /\ op.self.invalid # {} /\ op.self.invalid \subseteq op.result.invalid
    /\ \E d \in op.child.invalid : ~InPaddedBounds(op.self, InParentSpace(op.child, d))
    /\ \E c \in op.result.invalid \ op.self.invalid : c.x < 0

\* The value of flag f in state st.
FlagOf(st, f) ==
    CASE f = "needs_layout" -> st.needs_layout
      [] f = "request_anim" -> st.request_anim
      [] f = "request_timer" -> st.request_timer
      [] f = "has_active" -> st.has_active
      [] f = "has_focus" -> st.has_focus
      [] f = "children_changed" -> st.children_changed

\* C31: after merge_up each of the six flags of the parent is its previous
\* value or-ed with the child's, so no flag of the parent is cleared, and the
\* parent's id, is_hot, is_active, layout rect, filter and focus chain are
\* what they were.
C31_FlagsOr ==
    op.kind = "merge_up" =>
        /\ \A f \in MergeFlags :
              /\ FlagOf(op.result, f) = (FlagOf(op.self, f) \/ FlagOf(op.child, f))
              /\ FlagOf(op.self, f) => FlagOf(op.result, f)
        /\ op.result.id = op.self.id
        /\ op.result.is_hot = op.self.is_hot
        /\ op.result.is_active = op.self.is_active
        /\ op.result.layout_rect = op.self.layout_rect
        /\ op.result.paint_insets = op.self.paint_insets
        /\ op.result.viewport_offset = op.self.viewport_offset
        /\ op.result.children = op.self.children
        /\ op.result.focus_chain = op.self.focus_chain

\* C31 witness: the parent had has_active and the child did not, the child
\* had needs_layout and the parent did not; the parent has both afterwards
\* and is still hot while the child is not.
C31_Witness ==
    /\ op.kind = "merge_up"
    /\ op.self.has_active /\ ~op.child.has_active /\ op.result.has_active
    /\ ~op.self.needs_layout /\ op.child.needs_layout /\ op.result.needs_layout
    /\ op.self.is_hot /\ ~op.child.is_hot /\ op.result.is_hot
    /\ op.result.focus_chain = <<2>>

RequestPassed == op.kind = "event" /\ op.event.kind = "Command" /\ ~panicked

\* The first non-empty set of a sequence of sets, or the empty set.
RECURSIVE FirstSome(_)
FirstSome(sq) ==
    IF sq = <<>> THEN {} ELSE IF Head(sq) # {} THEN Head(sq) ELSE FirstSome(Tail(sq))

\* The pods of S that asked for the focus in the pass l of event e, and the
\* one of them that received the event first.
Askers(S, l, e) ==
    {q \in S : q \in e.asks /\ \E i \in DOMAIN l : l[i].pod = q /\ l[i].kind = "Command"}
FirstAsker(S, l, e) ==
    {q \in Askers(S, l, e) :
        \A r \in Askers(S, l, e) :
            \E i \in DOMAIN l :
                /\ l[i].pod = q /\ l[i].kind = "Command"
                /\ \A j \in DOMAIN l : (l[j].pod = r /\ l[j].kind = "Command") => i <= j}

\* C32: in a pass in which pods ask for the focus, a pod ends with its own
\* request if it asked, else with the request it already held, else with the
\* first request that its children, in order, ended with; the window is left
\* with the root's. When no request was pending before the pass, that is the
\* request of the pod that asked first.
C32_FirstRequestWins ==
    [][RequestPassed' =>
          /\ \A p \in present :
                pods'[p].state.request_focus =
                    FirstSome(<<IF p \in Askers(present, log', op'.event) THEN {p} ELSE {},
                                pods[p].state.request_focus>>
                              \o [i \in 1..Len(ChildrenOf(p)) |->
                                    pods'[ChildrenOf(p)[i]].state.request_focus])
          /\ pods'[CtxIdx].state.request_focus = pods'[Root].state.request_focus
          /\ (\A p \in present : pods[p].state.request_focus = {}) =>
                pods'[CtxIdx].state.request_focus = FirstAsker(present, log', op'.event)
      ]_vars

\* C32 witness: two pods below the root asked, the root did not, and the
\* window holds the request of the one that received the event first.
C32_Witness ==
    /\ RequestPassed
    /\ Root \notin op.event.asks
    /\ \E a, b \in Askers(present, log, op.event) :
          /\ a # b
          /\ pods[CtxIdx].state.request_focus = {a}
          /\ pods[b].state.request_focus = {b}

\* C32, a second case reached: the window is left with a request that a pod
\* held from an earlier pass although another pod asked in this one.
C32_PendingKept ==
    /\ RequestPassed
    /\ \E a \in Askers(present, log, op.event) :
          /\ pods[CtxIdx].state.request_focus # {}
          /\ pods[CtxIdx].state.request_focus # {a}
          /\ pods[CtxIdx].state.request_focus \cap op.event.asks = {}

\* C33: after an event pass the window's context holds, for every timer a
\* widget requested in the pass, its token with the id of the pod that
\* requested it, and nothing else; no pod of the tree holds a timer any more.
C33_TimersReachRoot ==
    (op.kind = "event" /\ ~panicked) =>
        /\ pods[CtxIdx].state.timers =
              {<<i, id(pods[log[i].pod])>> : i \in {j \in DOMAIN log : log[j].kind = "Command"}}
        /\ \A p \in present : pods[p].state.timers = {}

\* C33 witness: a pass in which a pod two levels below the root and its
\* parent both requested a timer; the window holds both with their owners.
C33_Witness ==
    /\ op.kind = "event" /\ ~panicked
    /\ \E p \in present :
          /\ parent[p] # Root /\ parent[p] # CtxIdx
          /\ \E t, u \in pods[CtxIdx].state.timers :
                t[2] = p /\ u[2] = parent[p] /\ t[1] # u[1]

\* Some cell of region reg lies in the layout rect of st enlarged by its
\* paint insets.
PaddedRectMeets(st, reg) ==
    \E c \in reg :
        /\ c.x >= layout_rect(st).x0 - st.paint_insets.x0
        /\ c.x < layout_rect(st).x1 + st.paint_insets.x1
        /\ c.y >= layout_rect(st).y0 - st.paint_insets.y0
        /\ c.y < layout_rect(st).y1 + st.paint_insets.y1

C34_PaintedThroughInsets ==
    /\ op.kind = "paint_with_offset" /\ ~op.always /\ op.painted
    /\ RegionIntersect(op.region, layout_rect(op.state)) = EmptyRegion
C34_PaintedAlways ==
    /\ op.kind = "paint_with_offset" /\ op.always /\ op.painted
    /\ ~PaddedRectMeets(op.state, op.region)

\* C35: after a layout pass from the window, in which every container lays
\* out all of its children, no pod of the tree has needs_layout set, and
\* neither has the window's context.
C35_LayoutClearsNeedsLayout ==
    op.kind = "layout" =>
        /\ \A p \in present : ~pods[p].state.needs_layout
        /\ ~pods[CtxIdx].state.needs_layout

\* C35 witness: a layout pass ran on a tree in which the root and a pod
\* below it had needs_layout set.
C35_Witness ==
    /\ op.kind = "layout" /\ "flagged" \in DOMAIN op
    /\ Root \in op.flagged /\ op.flagged # {Root}
    /\ \A p \in present : ~pods[p].state.needs_layout

\* C36: a pointer event handed to a pod that was never laid out is warned
\* about and goes on without a panic; the pod is not hot afterwards, its
\* widget is told of no HotChanged(true), and the widget receives the event
\* only if the pod had has_active set.
C36_EventBeforeLayout ==
    [][(op'.kind = "event" /\ op'.event.kind \in {"MouseMove", "MouseDown", "MouseUp"}) =>
          /\ ~panicked'
          /\ \A p \in present :
                (pods[p].state.layout_rect = {} /\ Reached(log', p)) =>
                    /\ \E i \in DOMAIN log' :
                          log'[i].pod = p /\ log'[i].kind = "warn_not_laid_out"
                    /\ ~pods'[p].state.is_hot
                    /\ \A i \in HotAt(log', p) : ~log'[i].b
                    /\ PointerAt(log', p) # {} => pods[p].state.has_active
          /\ \A i \in DOMAIN log' :
                log'[i].kind = "warn_not_laid_out" => pods[log'[i].pod].state.layout_rect = {}
      ]_vars

\* C36 witness: a pod that joined a laid-out tree was handed a pointer event
\* at the window's origin by its parent, whose widget received it; the pod
\* was warned about and its widget did not receive the event.
C36_Witness ==
    /\ op.kind = "event" /\ op.event.pos = ZeroVec
    /\ \E q \in present \ {Root} :
          /\ pods[q].state.layout_rect = {}
          /\ pods[parent[q]].state.layout_rect # {}
          /\ PointerAt(log, parent[q]) # {}
          /\ \E i \in DOMAIN log : log[i].pod = q /\ log[i].kind = "warn_not_laid_out"
          /\ PointerAt(log, q) = {}

\* C37: WidgetPod::update on a pod without snapshot warns, calls no widget
\* of the pod's subtree, leaves the pod's state as it was and merges nothing
\* into the caller's, and stores the data and environment as the snapshot;
\* on a pod whose snapshot differs from the data or environment, the widget's
\* update is called once with the previous snapshot as old data, and the
\* snapshot is the new data and environment afterwards.
C37_UpdateWithoutSnapshot ==
    [][op'.kind = "update" =>
          \A p \in present :
              UpdateCalled(log', p) =>
                  /\ pods[p].old_data = {} =>
                        /\ \E i \in DOMAIN log' :
                              log'[i].pod = p /\ log'[i].kind = "warn_old_data_missing"
                        /\ \A q \in Subtree(p), i \in DOMAIN log' :
                              log'[i].pod = q => log'[i].kind # "update"
                        /\ pods'[p].state = pods[p].state
                        /\ pods'[p].old_data = {View(p, data)} /\ pods'[p].env = {env}
                        /\ p = Root => pods'[CtxIdx] = CtxNew
                  /\ (/\ pods[p].old_data # {}
                      /\ \/ \E o \in pods[p].old_data : ~same(o, View(p, data))
                         \/ \E oe \in pods[p].env : ~same(oe, env)) =>
                        /\ Cardinality({i \in DOMAIN log' :
                                           log'[i].pod = p /\ log'[i].kind = "update"}) = 1
                        /\ \A i \in DOMAIN log' :
                              (log'[i].pod = p /\ log'[i].kind = "update") =>
                                  {log'[i].old} = pods[p].old_data
                        /\ pods'[p].old_data = {View(p, data)} /\ pods'[p].env = {env}]_vars

\* C37 witness: in one update pass the root's widget was updated with its
\* previous snapshot, which differs from the data, and a child without
\* snapshot was warned about and given its first snapshot.
C37_Witness ==
    /\ op.kind = "update"
    /\ \E i \in DOMAIN log :
          /\ log[i].pod = Root /\ log[i].kind = "update"
          /\ log[i].old # View(Root, data)
    /\ \E q \in present \ {Root}, i \in DOMAIN log :
          /\ log[i].pod = q /\ log[i].kind = "warn_old_data_missing"
          /\ pods[q].old_data = {View(q, data)}
          /\ added[q] = 0

\* C38: before any set_layout_rect a pod's layout_rect() is the zero rect;
\* after set_layout_rect(ctx, .., rect) it is rect, the pod is hot exactly
\* when the context's mouse position is known and lies in rect, and the
\* caller's state has the pod's state merged into it exactly when is_hot
\* changed.
C38_SetLayoutRect ==
    /\ (op.kind = "input" /\ op.state.layout_rect = {}) => layout_rect(op.state) = ZeroRect
    /\ op.kind = "set_layout_rect" =>
          /\ layout_rect(op.pod) = op.rect
          /\ op.pod.is_hot = \E pos \in op.mouse_pos :
                                /\ op.rect.x0 <= pos.x /\ pos.x < op.rect.x1
                                /\ op.rect.y0 <= pos.y /\ pos.y < op.rect.y1
          /\ op.ctx = IF op.pod.is_hot # op.state.is_hot
                      THEN merge_up(BaseStateNew(CtxIdx), op.pod)
                      ELSE BaseStateNew(CtxIdx)

\* C38 witness: a pod that needed layout and was not hot was given a
\* rectangle around the mouse position; it is hot and the caller's state took
\* its needs_layout flag.
C38_Witness ==
    /\ op.kind = "set_layout_rect"
    /\ ~op.state.is_hot /\ op.pod.is_hot /\ op.state.needs_layout
    /\ op.rect # WinRect /\ op.state.layout_rect # {op.rect}
    /\ op.ctx.needs_layout

\* C38, a second case reached: the pod's hot state stayed as it was and the
\* caller's state is untouched although the pod needed layout.
C38_NotMerged ==
    /\ op.kind = "set_layout_rect"
    /\ op.state.is_hot /\ op.pod.is_hot /\ op.state.needs_layout
    /\ op.state.layout_rect # {op.rect}
    /\ ~op.ctx.needs_layout

\* C39 (the claim as stated): after a layout pass run with a known mouse
\* position, every pod is hot exactly when the position, brought into the
\* space of the pod's parent through the new origins of its ancestors, lies
\* in the pod's new layout rect.
C39_HotAfterLayout ==
    (op.kind = "layout" /\ mouse # {}) =>
        \A p \in present : pods[p].state.is_hot <=> InRect(p)

\* C39, what holds instead: after such a layout pass a pod is hot exactly
\* when the position, brought into the space of the pod's parent through the
\* origins its ancestors had before the pass, lies in the pod's new layout
\* rect.
C39_HotThroughOldOrigins ==
    [][(op'.kind = "layout" /\ mouse # {}) =>
          \A p \in present :
              pods'[p].state.is_hot <=>
                  \E pos \in mouse : winding(layout_rect(pods'[p].state), LocalPos(p, pos))]_vars

\* C40: Action::merge aborts exactly when both actions are present;
\* otherwise it returns this when this is present and other when it is not,
\* so the action that is present, if any, is what it returns.
C40_MergeNeverDrops ==
    op.kind = "merge" =>
        /\ op.aborted <=> (op.this # {} /\ op.other # {})
        /\ ~op.aborted =>
              /\ op.this # {} => op.value = op.this
              /\ op.this = {} => op.value = op.other
              /\ op.value = op.this \cup op.other

\* C40 witness: a caller that held a child's action from an earlier merge
\* was handed a different one by the next child, and the merge aborted.
C40_Witness ==
    /\ op.kind = "merge" /\ op.count >= 2
    /\ op.this # {} /\ op.other # {} /\ op.this # op.other
    /\ op.aborted

====
